---- MODULE Spec2Model ----
(***************************************************************************)
(* Verification model of the PostBOUND Postgres plan-translation layer     *)
(* (postbound/db/postgres.py): the GeQO guard around query execution, the  *)
(* join-direction resolver of the Leading hint, the build-probe operator   *)
(* test and the hint emitter.                                              *)
(***************************************************************************)
EXTENDS Integers, Sequences, FiniteSets, TLC

VARIABLES
    geqo_state,      \* PostgresInterface._current_geqo_state (the tracked snapshot)
    session,         \* geqo / geqo_threshold of the backend session behind _cursor
    server_default,  \* what a fresh connection to the server starts with
    query_cache,     \* PostgresInterface._query_cache (set of cached query texts)
    calls,           \* per call slot: position and locals of one guard-wrapped call
    serialized,      \* TRUE: the caller keeps at most one call in flight per session
    arg,             \* input of the translation function under check
    res              \* its result

guardVars == <<geqo_state, session, server_default, query_cache, calls, serialized>>
pureVars == <<arg, res>>
vars == <<geqo_state, session, server_default, query_cache, calls, serialized, arg, res>>

None == "None"

(***************************************************************************)
(* Bounds                                                                  *)
(***************************************************************************)
MaxTables == 2
MaxThreshold == 2

(***************************************************************************)
(* Text helpers: a text is a sequence of one-character strings             *)
(***************************************************************************)
lower(text) ==
    [i \in 1..Len(text) |->
        CASE text[i] = "G" -> "g"
          [] text[i] = "H" -> "h"
          [] text[i] = "E" -> "e"
          [] text[i] = "Q" -> "q"
          [] text[i] = "O" -> "o"
          [] text[i] = "S" -> "s"
          [] text[i] = "T" -> "t"
          [] text[i] = "N" -> "n"
          [] OTHER -> text[i]]

Contains(text, pattern) ==
    \E i \in 1..(Len(text) - Len(pattern) + 1) :
        SubSeq(text, i, i + Len(pattern) - 1) = pattern

GeqoName == <<"g", "e", "q", "o">>

\* preparatory statements a query may carry
PrepEmpty == <<>>
PrepGeqoOff == <<"s","e","t"," ","g","e","q","o","=","o","f","f">>
PrepGeqoUpper == <<"S","E","T"," ","G","E","Q","O","=","O","N",";",
                   "S","e","t"," ","G","e","q","o","_","T","h","r","e","s","h","o","l","d","=","1">>
PrepWorkMem == <<"s","e","t"," ","w","o","r","k","_","m","e","m","=","1">>
PrepTexts == {PrepEmpty, PrepGeqoOff, PrepGeqoUpper, PrepWorkMem}

QueryHintTexts == {"", "/*+ Leading((R S)) */"}

(***************************************************************************)
(* Queries: a plain string, or a qal.SqlQuery with an optional Hint clause *)
(***************************************************************************)
\* query.hints: no Hint clause at all, or a Hint clause with its two texts
NoHints == [present |-> FALSE, preparatory_statements |-> PrepEmpty, query_hints |-> ""]
Hints == [present : {TRUE}, preparatory_statements : PrepTexts, query_hints : QueryHintTexts]

SqlQueries == [is_sql_query : {TRUE}, hints : Hints \cup {NoHints}, tables : 1..MaxTables]
StrQueries == [is_sql_query : {FALSE}, hints : {NoHints}, tables : {0}]
NoQuery == [is_sql_query |-> FALSE, hints |-> NoHints, tables |-> 0]

\* queries of overlapping calls: hinted query objects without preparatory statements
OverlapQueries ==
    {q \in SqlQueries : q.hints.present /\ q.hints.preparatory_statements = PrepEmpty
                        /\ q.hints.query_hints # ""}

(***************************************************************************)
(* Backend session                                                         *)
(***************************************************************************)
SetGeqo(value) == <<"SET", "geqo", value>>
SetGeqoThreshold(value) == <<"SET", "geqo_threshold", value>>
Preparatory(text) == <<"PREP", text>>
MainQuery(query) == <<"QUERY", query>>

\* effect of one statement on the geqo settings of the session
BackendExecute(sess, stmt) ==
    CASE stmt[1] = "SET" /\ stmt[2] = "geqo" -> [sess EXCEPT !.geqo = stmt[3]]
      [] stmt[1] = "SET" /\ stmt[2] = "geqo_threshold" -> [sess EXCEPT !.geqo_threshold = stmt[3]]
      [] stmt[1] = "PREP" /\ stmt[2] = PrepGeqoOff -> [sess EXCEPT !.geqo = "off"]
      [] stmt[1] = "PREP" /\ stmt[2] = PrepGeqoUpper -> [sess EXCEPT !.geqo = "on", !.geqo_threshold = 1]
      [] OTHER -> sess

\* the statement sets geqo or geqo_threshold
WritesGeqo(stmt) ==
    \/ stmt[1] = "SET"
    \/ stmt[1] = "PREP" /\ stmt[2] \in {PrepGeqoOff, PrepGeqoUpper}

Sessions == [geqo : {"on", "off"}, geqo_threshold : 1..MaxThreshold]

\* settings apply_configuration is called with
Configurations == {SetGeqo("on"), SetGeqo("off"), SetGeqoThreshold(1)}

(***************************************************************************)
(* _GeQOState and the helpers of _prepare_query_execution                  *)
(***************************************************************************)
_obtain_geqo_state(sess) ==
    [enabled |-> (sess.geqo = "on"), threshold |-> sess.geqo_threshold]

triggers_geqo_strict(state, query) ==
    state.enabled /\ query.tables > state.threshold

triggers_geqo(state, query) ==
    state.enabled /\ query.tables >= state.threshold

_query_contains_geqo_sensible_settings(query) ==
    query.hints.present /\ query.hints.query_hints # ""

\* variant: the search is case-sensitive
_modifies_geqo_config_case_sensitive(query) ==
    IF ~query.hints.present \/ query.hints.preparatory_statements = PrepEmpty
    THEN FALSE
    ELSE Contains(query.hints.preparatory_statements, GeqoName)

_modifies_geqo_config(query) ==
    IF ~query.hints.present \/ query.hints.preparatory_statements = PrepEmpty
    THEN FALSE
    ELSE Contains(lower(query.hints.preparatory_statements), GeqoName)

requires_geqo_deactivation(query) ==
    _query_contains_geqo_sensible_settings(query) /\ ~_modifies_geqo_config(query)

\* transform.drop_hints(query, preparatory_statements_only=True)
drop_hints(query) ==
    [query EXCEPT !.hints = [query.hints EXCEPT !.preparatory_statements = PrepEmpty]]

has_preparatory_statements(query) ==
    query.hints.present /\ query.hints.preparatory_statements # PrepEmpty

\* the query text _prepare_query_execution hands back (the key of the query cache)
prepared_text(query) ==
    IF query.is_sql_query /\ has_preparatory_statements(query) THEN drop_hints(query) ELSE query

\* the query texts of the calls made with cache_enabled: the plain string and the hinted
\* one-table query
CachedTexts ==
    {NoQuery,
     [is_sql_query |-> TRUE, tables |-> 1,
      hints |-> [present |-> TRUE, preparatory_statements |-> PrepEmpty,
                 query_hints |-> "/*+ Leading((R S)) */"]]}

(***************************************************************************)
(* Guard-wrapped calls                                                     *)
(***************************************************************************)
Calls == {1, 2}
Operations == {"execute_query", "query_plan", "analyze_plan", "cardinality_estimate", "cost_estimate"}

IdleCall ==
    [pc |-> "idle", op |-> None, query |-> NoQuery, original |-> NoQuery, cache_enabled |-> FALSE,
     sent |-> <<>>, outcome |-> None, foreign |-> FALSE, foreign_at_execute |-> FALSE]

\* the calls that are let to overlap
OverlapOperations == {"execute_query", "analyze_plan"}

InFlight(c) == calls[c].pc # "idle"

\* one statement reaches the backend on behalf of call c
Send(c, stmt, nextPc, fields) ==
    /\ session' = BackendExecute(session, stmt)
    /\ calls' = [d \in Calls |->
                    IF d = c
                    THEN [fields EXCEPT !.pc = nextPc, !.sent = Append(@, stmt),
                                        !.foreign = IF WritesGeqo(stmt) THEN FALSE ELSE @,
                                        !.foreign_at_execute = IF stmt[1] = "QUERY" THEN fields.foreign ELSE @]
                    ELSE IF InFlight(d) /\ WritesGeqo(stmt)
                         THEN [calls[d] EXCEPT !.foreign = TRUE]
                         ELSE calls[d]]

Goto(c, nextPc, fields) ==
    calls' = [calls EXCEPT ![c] = [fields EXCEPT !.pc = nextPc]]

Begin_unserialized(c, op, query, cache_enabled) ==
    /\ ~InFlight(c)
    /\ op = "analyze_plan" => query.is_sql_query
    /\ op # "execute_query" => ~cache_enabled
    /\ cache_enabled => prepared_text(query) \in CachedTexts
    /\ calls' = [calls EXCEPT ![c] = [IdleCall EXCEPT !.pc = "prepare", !.op = op, !.query = query,
                                                      !.original = query, !.cache_enabled = cache_enabled]]
    /\ UNCHANGED <<geqo_state, session, server_default, query_cache, serialized>>

Begin(c, op, query, cache_enabled) ==
    /\ ~InFlight(c)
    /\ serialized => \A d \in Calls : ~InFlight(d) /\ c <= d
    /\ op = "analyze_plan" => query.is_sql_query
    /\ op # "execute_query" => ~cache_enabled
    /\ cache_enabled => prepared_text(query) \in CachedTexts
    /\ calls' = [calls EXCEPT ![c] = [IdleCall EXCEPT !.pc = "prepare", !.op = op, !.query = query,
                                                      !.original = query, !.cache_enabled = cache_enabled]]
    /\ UNCHANGED <<geqo_state, session, server_default, query_cache, serialized>>

\* _prepare_query_execution, first half: the forced-disable directive
PrepareGeqo(c) ==
    LET call == calls[c] IN
    /\ call.pc = "prepare"
    /\ IF ~call.query.is_sql_query
       THEN Goto(c, "execute", call) /\ UNCHANGED session
       ELSE IF requires_geqo_deactivation(call.query) /\ triggers_geqo(geqo_state, call.query)
            THEN Send(c, SetGeqo("off"), "prepare_statements", call)
            ELSE Goto(c, "prepare_statements", call) /\ UNCHANGED session
    /\ UNCHANGED <<geqo_state, server_default, query_cache, serialized>>

\* variant: the preparatory statements run and stay in the query
PrepareStatements_kept(c) ==
    LET call == calls[c] IN
    /\ call.pc = "prepare_statements"
    /\ IF has_preparatory_statements(call.query)
       THEN Send(c, Preparatory(call.query.hints.preparatory_statements), "execute", call)
       ELSE Goto(c, "execute", call) /\ UNCHANGED session
    /\ UNCHANGED <<geqo_state, server_default, query_cache, serialized>>

\* _prepare_query_execution, second half: the preparatory statements run and are dropped
PrepareStatements(c) ==
    LET call == calls[c] IN
    /\ call.pc = "prepare_statements"
    /\ IF has_preparatory_statements(call.query)
       THEN Send(c, Preparatory(call.query.hints.preparatory_statements), "execute",
                 [call EXCEPT !.query = drop_hints(call.query)])
       ELSE Goto(c, "execute", call) /\ UNCHANGED session
    /\ UNCHANGED <<geqo_state, server_default, query_cache, serialized>>

\* the backend rejects the preparatory statements: the error leaves _prepare_query_execution
PrepareStatementsFail(c) ==
    LET call == calls[c] IN
    /\ call.pc = "prepare_statements"
    /\ has_preparatory_statements(call.query)
    /\ Goto(c, "raised", [call EXCEPT !.outcome = "prepare_error",
                                      !.sent = Append(@, Preparatory(call.query.hints.preparatory_statements))])
    /\ UNCHANGED <<geqo_state, session, server_default, query_cache, serialized>>

IsCacheHit(call) ==
    call.op = "execute_query" /\ call.cache_enabled /\ call.query \in query_cache

\* execute_query: the result is served from the query cache
CacheHit(c) ==
    LET call == calls[c] IN
    /\ call.pc = "execute"
    /\ IsCacheHit(call)
    /\ Goto(c, "returned", [call EXCEPT !.outcome = "cached"])
    /\ UNCHANGED <<geqo_state, session, server_default, query_cache, serialized>>

\* the main query is sent to the backend and succeeds
ExecuteOk(c) ==
    LET call == calls[c] IN
    /\ call.pc = "execute"
    /\ ~IsCacheHit(call)
    /\ Send(c, MainQuery(call.query), "restore_geqo", [call EXCEPT !.outcome = "executed"])
    /\ UNCHANGED <<geqo_state, server_default, query_cache, serialized>>

\* the main query is sent to the backend and raises
ExecuteFail(c) ==
    LET call == calls[c] IN
    /\ call.pc = "execute"
    /\ ~IsCacheHit(call)
    /\ Send(c, MainQuery(call.query), "raised", [call EXCEPT !.outcome = "query_error"])
    /\ UNCHANGED <<geqo_state, server_default, query_cache, serialized>>

RestoreGeqo_only_if_enabled(c) ==
    LET call == calls[c] IN
    /\ call.pc = "restore_geqo"
    /\ IF geqo_state.enabled
       THEN Send(c, SetGeqo("on"), "restore_threshold", call)
       ELSE Goto(c, "restore_threshold", call) /\ UNCHANGED session
    /\ UNCHANGED <<geqo_state, server_default, query_cache, serialized>>

\* variant: the restore reads the configuration of the session anew and keeps it as the
\* snapshot
RestoreGeqo_reread(c) ==
    LET call == calls[c]
        state == _obtain_geqo_state(session)
        geqo_enabled == IF state.enabled THEN "on" ELSE "off" IN
    /\ call.pc = "restore_geqo"
    /\ Send(c, SetGeqo(geqo_enabled), "restore_threshold", call)
    /\ geqo_state' = state
    /\ UNCHANGED <<server_default, query_cache, serialized>>

\* _restore_geqo_state, first directive
RestoreGeqo(c) ==
    LET call == calls[c]
        geqo_enabled == IF geqo_state.enabled THEN "on" ELSE "off" IN
    /\ call.pc = "restore_geqo"
    /\ Send(c, SetGeqo(geqo_enabled), "restore_threshold", call)
    /\ UNCHANGED <<geqo_state, server_default, query_cache, serialized>>

\* _restore_geqo_state, second directive; execute_query then fills the cache and returns
RestoreThreshold(c) ==
    LET call == calls[c] IN
    /\ call.pc = "restore_threshold"
    /\ Send(c, SetGeqoThreshold(geqo_state.threshold), "returned", call)
    /\ query_cache' = IF call.op = "execute_query" /\ call.cache_enabled
                      THEN query_cache \cup {call.query}
                      ELSE query_cache
    /\ UNCHANGED <<geqo_state, server_default, serialized>>

\* the call hands its result, or its error, to the caller
Return(c) ==
    /\ calls[c].pc \in {"returned", "raised"}
    /\ calls' = [calls EXCEPT ![c] = IdleCall]
    /\ UNCHANGED <<geqo_state, session, server_default, query_cache, serialized>>

apply_configuration(configuration) ==
    /\ serialized
    /\ \A d \in Calls : ~InFlight(d)
    /\ session' = BackendExecute(session, configuration)
    /\ UNCHANGED <<geqo_state, server_default, query_cache, calls, serialized>>

reset_connection ==
    /\ serialized
    /\ \A d \in Calls : ~InFlight(d)
    /\ session' = server_default
    /\ UNCHANGED <<geqo_state, server_default, query_cache, calls, serialized>>

PureIdle == arg = None /\ res = None

\* PostgresInterface.__init__: connect and read the snapshot
GuardInit ==
    /\ server_default \in Sessions
    /\ session = server_default
    /\ geqo_state = _obtain_geqo_state(session)
    /\ query_cache = {}
    /\ calls = [c \in Calls |-> IdleCall]

GuardNext ==
    \/ \E c \in Calls, op \in Operations, query \in SqlQueries \cup StrQueries, cache_enabled \in BOOLEAN :
          Begin(c, op, query, cache_enabled)
    \/ \E c \in Calls : PrepareGeqo(c)
    \/ \E c \in Calls : PrepareStatements(c)
    \/ \E c \in Calls : PrepareStatementsFail(c)
    \/ \E c \in Calls : CacheHit(c)
    \/ \E c \in Calls : ExecuteOk(c)
    \/ \E c \in Calls : ExecuteFail(c)
    \/ \E c \in Calls : RestoreGeqo(c)
    \/ \E c \in Calls : RestoreThreshold(c)
    \/ \E c \in Calls : Return(c)
    \/ \E configuration \in Configurations : apply_configuration(configuration)
    \/ reset_connection

Init == GuardInit /\ serialized = TRUE /\ PureIdle
Next == GuardNext /\ UNCHANGED pureVars
Spec == Init /\ [][Next]_vars

InitOverlap == GuardInit /\ serialized \in BOOLEAN /\ PureIdle
NextOverlap ==
    /\ \/ \E c \in Calls, op \in OverlapOperations, query \in OverlapQueries :
             Begin(c, op, query, FALSE)
       \/ \E c \in Calls : PrepareGeqo(c)
       \/ \E c \in Calls : PrepareStatements(c)
       \/ \E c \in Calls : ExecuteOk(c)
       \/ \E c \in Calls : ExecuteFail(c)
       \/ \E c \in Calls : RestoreGeqo(c)
       \/ \E c \in Calls : RestoreThreshold(c)
       \/ \E c \in Calls : Return(c)
    /\ UNCHANGED pureVars
SpecOverlap == InitOverlap /\ [][NextOverlap]_vars

(***************************************************************************)
(* Join trees and operator assignments (the plan model)                    *)
(***************************************************************************)
MaxLeaves == 4

TableNames == <<"R", "S", "T", "U", "V", "W">>

NaN == -1
Cardinalities == {NaN, 100, 10000}
isfinite(cardinality) == cardinality # NaN

JoinOperators == {"NestedLoopJoin", "HashJoin", "SortMergeJoin"}
ScanOperators == {"SequentialScan", "IndexScan", "IndexOnlyScan", "BitmapScan"}

\* annotations of an intermediate join node
NoAnnotation == [kind |-> "none", operator |-> "none", inner |-> {}]
Directional(operator, inner) == [kind |-> "directional", operator |-> operator, inner |-> inner]
PhysicalJoinMetadata(operator) == [kind |-> "physical_metadata", operator |-> operator, inner |-> {}]

BaseTableNode(table, cardinality) ==
    [kind |-> "base", table |-> table, cardinality |-> cardinality]

IntermediateJoinNode(left, right, annotation, cardinality) ==
    [kind |-> "join", left_child |-> left, right_child |-> right,
     annotation |-> annotation, cardinality |-> cardinality]

RECURSIVE tables(_)
tables(node) ==
    IF node.kind = "base" THEN {node.table}
    ELSE tables(node.left_child) \cup tables(node.right_child)

\* how the annotations of a generated tree are chosen
AnnotationModes ==
    {"none", "inner_left_nlj", "inner_left_hash", "inner_right_nlj", "inner_right_hash", "metadata_hash"}

Annotate(mode, left, right) ==
    CASE mode = "inner_left_nlj" -> Directional("NestedLoopJoin", tables(left))
      [] mode = "inner_left_hash" -> Directional("HashJoin", tables(left))
      [] mode = "inner_right_nlj" -> Directional("NestedLoopJoin", tables(right))
      [] mode = "inner_right_hash" -> Directional("HashJoin", tables(right))
      [] mode = "metadata_hash" -> PhysicalJoinMetadata("HashJoin")
      [] OTHER -> NoAnnotation

JoinCardinality(left, right) ==
    IF isfinite(left.cardinality) /\ isfinite(right.cardinality)
    THEN left.cardinality + right.cardinality
    ELSE NaN

\* the number of binary tree shapes over len leaves, and the number of those whose left
\* subtree has fewer than m leaves
RECURSIVE NumShapes(_), ShapesBefore(_, _)
NumShapes(len) == IF len <= 1 THEN 1 ELSE ShapesBefore(len, len)
ShapesBefore(len, m) ==
    IF m <= 1 THEN 0
    ELSE ShapesBefore(len, m - 1) + NumShapes(m - 1) * NumShapes(len - m + 1)

\* how the k-th tree shape over len leaves splits: the number of leaves of its left subtree
\* and the shapes of the two subtrees
Splits ==
    [len \in 2..(MaxLeaves + 1) |->
        [k \in 1..NumShapes(len) |->
            LET m == CHOOSE j \in 1..(len - 1) :
                         ShapesBefore(len, j) < k /\ k <= ShapesBefore(len, j + 1)
                rank == k - ShapesBefore(len, m) - 1
                right_shapes == NumShapes(len - m) IN
            [left_leaves |-> m,
             left_shape |-> (rank \div right_shapes) + 1,
             right_shape |-> (rank % right_shapes) + 1]]]

\* the join of two subtrees, annotated as mode says
AnnotatedJoin(left, right, mode) ==
    IntermediateJoinNode(left, right, Annotate(mode, left, right), JoinCardinality(left, right))

\* the k-th binary tree over the leaves lo..hi (in this order), leaf i with cardinality
\* cards[i], every join annotated as mode says
RECURSIVE JoinTree(_, _, _, _, _)
JoinTree(lo, hi, k, cards, mode) ==
    IF lo = hi
    THEN BaseTableNode(TableNames[lo], cards[lo])
    ELSE LET split == Splits[hi - lo + 1][k] IN
         AnnotatedJoin(JoinTree(lo, lo + split.left_leaves - 1, split.left_shape, cards, mode),
                       JoinTree(lo + split.left_leaves, hi, split.right_shape, cards, mode),
                       mode)

\* physops.PhysicalOperatorAssignment: join_operators maps table sets to join operators,
\* join_inner maps the table sets whose operator is a DirectionalJoinOperatorAssignment to
\* its inner tables, global_settings maps operators to enabled flags; present = FALSE
\* stands for None
NoAssignment ==
    [present |-> FALSE, join_operators |-> <<>>, join_inner |-> <<>>, global_settings |-> <<>>]
Assignment(join_operators, global_settings) ==
    [present |-> TRUE, join_operators |-> join_operators, join_inner |-> <<>>,
     global_settings |-> global_settings]
DirectionalAssignment(join_operators, join_inner) ==
    [present |-> TRUE, join_operators |-> join_operators, join_inner |-> join_inner,
     global_settings |-> <<>>]

NoJoinOperator == [present |-> FALSE, operator |-> "none"]

\* PhysicalOperatorAssignment.__getitem__ for a set of tables
JoinOperatorFor(operator_assignment, tabs) ==
    IF tabs \in DOMAIN operator_assignment.join_operators
    THEN [present |-> TRUE, operator |-> operator_assignment.join_operators[tabs]]
    ELSE NoJoinOperator

get_globally_enabled_operators(operator_assignment) ==
    {op \in DOMAIN operator_assignment.global_settings : operator_assignment.global_settings[op]}

(***************************************************************************)
(* Build-probe operator test and join-direction resolver                   *)
(***************************************************************************)
_is_hash_join_any_enabled(join_tree_node, operator_assignment) ==
    IF operator_assignment.present
    THEN LET selected_operator == JoinOperatorFor(operator_assignment, tables(join_tree_node)) IN
         IF selected_operator.present
         THEN selected_operator.operator = "HashJoin"
         ELSE "HashJoin" \in get_globally_enabled_operators(operator_assignment)
    ELSE IF join_tree_node.annotation.kind # "physical_metadata"
         THEN FALSE
         ELSE join_tree_node.annotation.operator = "HashJoin"

\* variant: hash join being the only globally enabled join operator overrides the
\* operator assigned to the join
_is_hash_join_global_first(join_tree_node, operator_assignment) ==
    IF operator_assignment.present
    THEN LET selected_operator == JoinOperatorFor(operator_assignment, tables(join_tree_node))
             global_join_ops == {op \in get_globally_enabled_operators(operator_assignment) :
                                    op \in JoinOperators} IN
         IF Cardinality(global_join_ops) = 1 /\ "HashJoin" \in global_join_ops
         THEN TRUE
         ELSE selected_operator.present /\ selected_operator.operator = "HashJoin"
    ELSE IF join_tree_node.annotation.kind # "physical_metadata"
         THEN FALSE
         ELSE join_tree_node.annotation.operator = "HashJoin"

_is_hash_join(join_tree_node, operator_assignment) ==
    IF operator_assignment.present
    THEN LET selected_operator == JoinOperatorFor(operator_assignment, tables(join_tree_node)) IN
         IF selected_operator.present
         THEN selected_operator.operator = "HashJoin"
         ELSE LET global_join_ops == {op \in get_globally_enabled_operators(operator_assignment) :
                                         op \in JoinOperators} IN
              Cardinality(global_join_ops) = 1 /\ "HashJoin" \in global_join_ops
    ELSE IF join_tree_node.annotation.kind # "physical_metadata"
         THEN FALSE
         ELSE join_tree_node.annotation.operator = "HashJoin"

\* variant: the smaller input is made the outer one of a hash join as well
inner_outer_hash_unswapped(join_tree_node, operator_assignment) ==
    IF join_tree_node.annotation.kind = "directional"
    THEN LET annotation == join_tree_node.annotation
             inner_child == IF tables(join_tree_node.left_child) = annotation.inner
                            THEN join_tree_node.left_child ELSE join_tree_node.right_child
             outer_child == IF inner_child = join_tree_node.right_child
                            THEN join_tree_node.left_child ELSE join_tree_node.right_child IN
         IF annotation.operator = "HashJoin"
         THEN [inner |-> outer_child, outer |-> inner_child]
         ELSE [inner |-> inner_child, outer |-> outer_child]
    ELSE LET left == join_tree_node.left_child
             right == join_tree_node.right_child IN
         IF ~isfinite(left.cardinality) \/ ~isfinite(right.cardinality)
         THEN [inner |-> right, outer |-> left]
         ELSE IF _is_hash_join(join_tree_node, operator_assignment)
              THEN IF left.cardinality < right.cardinality
                   THEN [inner |-> right, outer |-> left]
                   ELSE [inner |-> left, outer |-> right]
              ELSE IF right.cardinality < left.cardinality
                   THEN [inner |-> right, outer |-> left]
                   ELSE [inner |-> left, outer |-> right]

\* variant: the outer child of an annotated join is looked up with the wrong comparison
inner_outer_same_child(join_tree_node, operator_assignment) ==
    IF join_tree_node.annotation.kind = "directional"
    THEN LET annotation == join_tree_node.annotation
             inner_child == IF tables(join_tree_node.left_child) = annotation.inner
                            THEN join_tree_node.left_child ELSE join_tree_node.right_child
             outer_child == IF inner_child = join_tree_node.left_child
                            THEN join_tree_node.left_child ELSE join_tree_node.right_child IN
         IF annotation.operator = "HashJoin"
         THEN [inner |-> outer_child, outer |-> inner_child]
         ELSE [inner |-> inner_child, outer |-> outer_child]
    ELSE LET left == join_tree_node.left_child
             right == join_tree_node.right_child IN
         IF ~isfinite(left.cardinality) \/ ~isfinite(right.cardinality)
         THEN [inner |-> right, outer |-> left]
         ELSE IF _is_hash_join(join_tree_node, operator_assignment)
              THEN IF left.cardinality < right.cardinality
                   THEN [inner |-> left, outer |-> right]
                   ELSE [inner |-> right, outer |-> left]
              ELSE IF right.cardinality < left.cardinality
                   THEN [inner |-> right, outer |-> left]
                   ELSE [inner |-> left, outer |-> right]

\* variant: the left child of a hash join without annotation is always the inner one
inner_outer_hash_left_inner(join_tree_node, operator_assignment) ==
    IF join_tree_node.annotation.kind = "directional"
    THEN LET annotation == join_tree_node.annotation
             inner_child == IF tables(join_tree_node.left_child) = annotation.inner
                            THEN join_tree_node.left_child ELSE join_tree_node.right_child
             outer_child == IF inner_child = join_tree_node.right_child
                            THEN join_tree_node.left_child ELSE join_tree_node.right_child IN
         IF annotation.operator = "HashJoin"
         THEN [inner |-> outer_child, outer |-> inner_child]
         ELSE [inner |-> inner_child, outer |-> outer_child]
    ELSE LET left == join_tree_node.left_child
             right == join_tree_node.right_child IN
         IF ~isfinite(left.cardinality) \/ ~isfinite(right.cardinality)
         THEN [inner |-> right, outer |-> left]
         ELSE IF _is_hash_join(join_tree_node, operator_assignment)
              THEN [inner |-> left, outer |-> right]
              ELSE IF right.cardinality < left.cardinality
                   THEN [inner |-> right, outer |-> left]
                   ELSE [inner |-> left, outer |-> right]

\* variant: without two finite estimates the left child is the inner one
inner_outer_unbounded_left_inner(join_tree_node, operator_assignment) ==
    IF join_tree_node.annotation.kind = "directional"
    THEN LET annotation == join_tree_node.annotation
             inner_child == IF tables(join_tree_node.left_child) = annotation.inner
                            THEN join_tree_node.left_child ELSE join_tree_node.right_child
             outer_child == IF inner_child = join_tree_node.right_child
                            THEN join_tree_node.left_child ELSE join_tree_node.right_child IN
         IF annotation.operator = "HashJoin"
         THEN [inner |-> outer_child, outer |-> inner_child]
         ELSE [inner |-> inner_child, outer |-> outer_child]
    ELSE LET left == join_tree_node.left_child
             right == join_tree_node.right_child IN
         IF ~isfinite(left.cardinality) \/ ~isfinite(right.cardinality)
         THEN [inner |-> left, outer |-> right]
         ELSE IF _is_hash_join(join_tree_node, operator_assignment)
              THEN IF left.cardinality < right.cardinality
                   THEN [inner |-> left, outer |-> right]
                   ELSE [inner |-> right, outer |-> left]
              ELSE IF right.cardinality < left.cardinality
                   THEN [inner |-> right, outer |-> left]
                   ELSE [inner |-> left, outer |-> right]

\* variant: the roles named by a directional annotation are never swapped
inner_outer_annotation_unswapped(join_tree_node, operator_assignment) ==
    IF join_tree_node.annotation.kind = "directional"
    THEN LET annotation == join_tree_node.annotation
             inner_child == IF tables(join_tree_node.left_child) = annotation.inner
                            THEN join_tree_node.left_child ELSE join_tree_node.right_child
             outer_child == IF inner_child = join_tree_node.right_child
                            THEN join_tree_node.left_child ELSE join_tree_node.right_child IN
         [inner |-> inner_child, outer |-> outer_child]
    ELSE LET left == join_tree_node.left_child
             right == join_tree_node.right_child IN
         IF ~isfinite(left.cardinality) \/ ~isfinite(right.cardinality)
         THEN [inner |-> right, outer |-> left]
         ELSE IF _is_hash_join(join_tree_node, operator_assignment)
              THEN IF left.cardinality < right.cardinality
                   THEN [inner |-> left, outer |-> right]
                   ELSE [inner |-> right, outer |-> left]
              ELSE IF right.cardinality < left.cardinality
                   THEN [inner |-> right, outer |-> left]
                   ELSE [inner |-> left, outer |-> right]

\* the direction decision at one intermediate join node
inner_outer(join_tree_node, operator_assignment) ==
    IF join_tree_node.annotation.kind = "directional"
    THEN LET annotation == join_tree_node.annotation
             inner_tables == annotation.inner
             inner_child == IF tables(join_tree_node.left_child) = inner_tables
                            THEN join_tree_node.left_child ELSE join_tree_node.right_child
             outer_child == IF inner_child = join_tree_node.right_child
                            THEN join_tree_node.left_child ELSE join_tree_node.right_child IN
         IF annotation.operator = "HashJoin"
         THEN [inner |-> outer_child, outer |-> inner_child]
         ELSE [inner |-> inner_child, outer |-> outer_child]
    ELSE LET left == join_tree_node.left_child
             right == join_tree_node.right_child
             has_left_bound == isfinite(left.cardinality)
             has_right_bound == isfinite(right.cardinality) IN
         IF ~has_left_bound \/ ~has_right_bound
         THEN [inner |-> right, outer |-> left]
         ELSE IF _is_hash_join(join_tree_node, operator_assignment)
              THEN IF left.cardinality < right.cardinality
                   THEN [inner |-> left, outer |-> right]
                   ELSE [inner |-> right, outer |-> left]
              ELSE IF right.cardinality < left.cardinality
                   THEN [inner |-> right, outer |-> left]
                   ELSE [inner |-> left, outer |-> right]

\* the returned text as a sequence of tokens: "(", ")", " " and table identifiers
RECURSIVE _generate_leading_hint_content(_, _)
_generate_leading_hint_content(join_tree_node, operator_assignment) ==
    IF join_tree_node.kind = "base"
    THEN <<join_tree_node.table>>
    ELSE LET direction == inner_outer(join_tree_node, operator_assignment)
             inner_hint == _generate_leading_hint_content(direction.inner, operator_assignment)
             outer_hint == _generate_leading_hint_content(direction.outer, operator_assignment) IN
         <<"(">> \o outer_hint \o <<" ">> \o inner_hint \o <<")">>

\* the tokens of a text joined into one string
RECURSIVE Text(_)
Text(tokens) == IF tokens = <<>> THEN "" ELSE Head(tokens) \o Text(Tail(tokens))

\* variant: the join order is listed without its parentheses
_generate_pg_join_order_hint_flat(join_order, operator_assignment) ==
    IF Cardinality(tables(join_order)) < 2
    THEN <<>>
    ELSE <<"Leading(">>
         \o SelectSeq(_generate_leading_hint_content(join_order, operator_assignment),
                      LAMBDA token : token \notin {"(", ")"})
         \o <<")">>

\* _generate_pg_join_order_hint: no hint for fewer than two tables, else Leading(<content>)
_generate_pg_join_order_hint(join_order, operator_assignment) ==
    IF Cardinality(tables(join_order)) < 2
    THEN <<>>
    ELSE <<"Leading(">> \o _generate_leading_hint_content(join_order, operator_assignment) \o <<")">>

(***************************************************************************)
(* Hint emitter                                                            *)
(***************************************************************************)
PostgresOptimizerSettings ==
    [op \in JoinOperators \cup ScanOperators |->
        CASE op = "NestedLoopJoin" -> "enable_nestloop"
          [] op = "HashJoin" -> "enable_hashjoin"
          [] op = "SortMergeJoin" -> "enable_mergejoin"
          [] op = "SequentialScan" -> "enable_seqscan"
          [] op = "IndexScan" -> "enable_indexscan"
          [] op = "IndexOnlyScan" -> "enable_indexonlyscan"
          [] op = "BitmapScan" -> "enable_bitmapscan"]

PostgresOptimizerHints ==
    [op \in JoinOperators \cup ScanOperators |->
        CASE op = "NestedLoopJoin" -> "NestLoop"
          [] op = "HashJoin" -> "HashJoin"
          [] op = "SortMergeJoin" -> "MergeJoin"
          [] op = "SequentialScan" -> "SeqScan"
          [] op = "IndexScan" -> "IndexOnlyScan"
          [] op = "IndexOnlyScan" -> "IndexOnlyScan"
          [] op = "BitmapScan" -> "BitmapScan"]

\* " ".join(tab.identifier() for tab in tables); tabs lists the tables in iteration order
RECURSIVE _generate_join_key(_)
_generate_join_key(tabs) ==
    IF Len(tabs) = 0 THEN ""
    ELSE IF Len(tabs) = 1 THEN tabs[1]
    ELSE tabs[1] \o " " \o _generate_join_key(Tail(tabs))

HintParts(settings, hints) == [settings |-> settings, hints |-> hints]

\* the three loops of _generate_pg_operator_hints; each map is the sequence of its items
RECURSIVE OperatorSettings(_)
OperatorSettings(global_settings) ==
    IF global_settings = <<>> THEN <<>>
    ELSE LET operator == Head(global_settings)[1]
             enabled == Head(global_settings)[2]
             setting == IF enabled THEN "on" ELSE "off"
             operator_key == PostgresOptimizerSettings[operator] IN
         <<"SET " \o operator_key \o " = '" \o setting \o "';">> \o OperatorSettings(Tail(global_settings))

RECURSIVE ScanHints(_)
ScanHints(scan_operators) ==
    IF scan_operators = <<>> THEN <<>>
    ELSE LET table_key == Head(scan_operators)[1]
             scan_assignment == PostgresOptimizerHints[Head(scan_operators)[2]] IN
         <<scan_assignment \o "(" \o table_key \o ")">> \o ScanHints(Tail(scan_operators))

RECURSIVE JoinHints(_)
JoinHints(join_operators) ==
    IF join_operators = <<>> THEN <<>>
    ELSE LET join_key == _generate_join_key(Head(join_operators)[1])
             join_assignment == PostgresOptimizerHints[Head(join_operators)[2]] IN
         <<join_assignment \o "(" \o join_key \o ")">> \o JoinHints(Tail(join_operators))

_generate_pg_operator_hints(physical_operators) ==
    LET settings == OperatorSettings(physical_operators.global_settings)
        scan_hints == ScanHints(physical_operators.scan_operators)
        hints == (IF scan_hints # <<>> THEN scan_hints \o <<"">> ELSE scan_hints)
                 \o JoinHints(physical_operators.join_operators) IN
    HintParts(settings, hints)

\* Python values of system-specific settings, tagged with their type
BoolValue(b) == [type |-> "bool", bool |-> b, int |-> 0, text |-> ""]
IntValue(n) == [type |-> "int", bool |-> FALSE, int |-> n, text |-> ""]
FloatValue(literal) == [type |-> "float", bool |-> FALSE, int |-> 0, text |-> literal]
StrValue(text) == [type |-> "str", bool |-> FALSE, int |-> 0, text |-> text]

\* isinstance(value, int) also holds for a bool
isinstance_int(value) == value.type \in {"int", "bool"}
isinstance_float(value) == value.type = "float"
isinstance_bool(value) == value.type = "bool"

\* str(value)
str(value) ==
    CASE value.type = "bool" -> IF value.bool THEN "True" ELSE "False"
      [] value.type = "int" -> ToString(value.int)
      [] OTHER -> value.text

_escape_setting(setting) ==
    IF isinstance_float(setting) \/ isinstance_int(setting)
    THEN str(setting)
    ELSE IF isinstance_bool(setting)
         THEN IF setting.bool THEN "TRUE" ELSE "FALSE"
         ELSE "'" \o str(setting) \o "'"

\* the three loops of _generate_pg_parameter_hints
RECURSIVE CardinalityHints(_)
CardinalityHints(cardinality_hints) ==
    IF cardinality_hints = <<>> THEN [hints |-> <<>>, warnings |-> 0]
    ELSE LET join == Head(cardinality_hints)[1]
             cardinality_hint == Head(cardinality_hints)[2]
             rest == CardinalityHints(Tail(cardinality_hints)) IN
         IF Len(join) < 2
         THEN [rest EXCEPT !.warnings = @ + 1]
         ELSE [rest EXCEPT !.hints = <<"Rows(" \o _generate_join_key(join) \o " #"
                                        \o ToString(cardinality_hint) \o ")">> \o @]

RECURSIVE ParallelHints(_)
ParallelHints(parallel_worker_hints) ==
    IF parallel_worker_hints = <<>> THEN [hints |-> <<>>, warnings |-> 0]
    ELSE LET join == Head(parallel_worker_hints)[1]
             num_workers == Head(parallel_worker_hints)[2]
             rest == ParallelHints(Tail(parallel_worker_hints)) IN
         IF Len(join) # 1
         THEN [rest EXCEPT !.warnings = @ + 1]
         ELSE [rest EXCEPT !.hints = <<"Parallel(" \o join[1] \o " " \o ToString(num_workers)
                                        \o " hard)">> \o @]

RECURSIVE SystemSettings(_)
SystemSettings(system_specific_settings) ==
    IF system_specific_settings = <<>> THEN <<>>
    ELSE LET operator == Head(system_specific_settings)[1]
             setting == _escape_setting(Head(system_specific_settings)[2]) IN
         <<"SET " \o operator \o " = " \o setting \o ";">> \o SystemSettings(Tail(system_specific_settings))

\* variant: no cardinality or parallel worker hint is skipped
_generate_pg_parameter_hints_unfiltered(plan_parameters) ==
    LET cardinality_hints == plan_parameters.cardinality_hints
        parallel_worker_hints == plan_parameters.parallel_worker_hints IN
    [settings |-> SystemSettings(plan_parameters.system_specific_settings),
     hints |-> [i \in 1..Len(cardinality_hints) |->
                   "Rows(" \o _generate_join_key(cardinality_hints[i][1]) \o " #"
                   \o ToString(cardinality_hints[i][2]) \o ")"]
               \o [i \in 1..Len(parallel_worker_hints) |->
                   "Parallel(" \o _generate_join_key(parallel_worker_hints[i][1]) \o " "
                   \o ToString(parallel_worker_hints[i][2]) \o " hard)"],
     warnings |-> 0]

_generate_pg_parameter_hints(plan_parameters) ==
    LET cardinality == CardinalityHints(plan_parameters.cardinality_hints)
        parallel == ParallelHints(plan_parameters.parallel_worker_hints) IN
    [settings |-> SystemSettings(plan_parameters.system_specific_settings),
     hints |-> cardinality.hints \o parallel.hints,
     warnings |-> cardinality.warnings + parallel.warnings]

\* [x for x in other if x not in self]
RECURSIVE NotIn(_, _)
NotIn(other, self) ==
    IF other = <<>> THEN <<>>
    ELSE (IF \E i \in 1..Len(self) : self[i] = Head(other) THEN <<>> ELSE <<Head(other)>>)
         \o NotIn(Tail(other), self)

\* variant: everything of other is appended
merge_with_append_all(self, other) ==
    HintParts(self.settings \o other.settings, self.hints \o other.hints)

\* variant: only the first element of self is looked up in other
merge_with_first_only(self, other) ==
    LET first(seq) == IF seq = <<>> THEN <<>> ELSE <<seq[1]>> IN
    HintParts(self.settings \o NotIn(other.settings, first(self.settings)),
              self.hints \o NotIn(other.hints, first(self.hints)))

\* HintParts.merge_with
merge_with(self, other) ==
    LET merged_settings == self.settings \o NotIn(other.settings, self.settings)
        merged_hints == self.hints \o NotIn(other.hints, self.hints) IN
    HintParts(merged_settings, merged_hints)

\* sep.join(lines)
RECURSIVE join(_, _)
join(sep, lines) ==
    IF lines = <<>> THEN ""
    ELSE IF Len(lines) = 1 THEN lines[1]
    ELSE lines[1] \o sep \o join(sep, Tail(lines))

\* clauses.Hint; present = FALSE stands for None
Hint(preparatory_statements, query_hints) ==
    [present |-> TRUE, preparatory_statements |-> preparatory_statements,
     query_hints |-> query_hints]
NoHint == [present |-> FALSE, preparatory_statements |-> "", query_hints |-> ""]

\* variant: a clause is built from empty parts as well
_generate_hint_block_always(parts) ==
    Hint(join("\n", parts.settings),
         IF parts.hints # <<>>
         THEN join("\n", <<"/*+">> \o [i \in 1..Len(parts.hints) |-> "  " \o parts.hints[i]]
                         \o <<"*/">>)
         ELSE "")

_generate_hint_block(parts) ==
    LET settings == parts.settings
        hints == parts.hints IN
    IF settings = <<>> /\ hints = <<>>
    THEN NoHint
    ELSE LET settings_block == join("\n", settings)
             hints_block == IF hints # <<>>
                            THEN join("\n", <<"/*+">> \o [i \in 1..Len(hints) |-> "  " \o hints[i]]
                                            \o <<"*/">>)
                            ELSE "" IN
         Hint(settings_block, hints_block)

(***************************************************************************)
(* Native plan normalizer                                                  *)
(***************************************************************************)
PostgresExplainJoinNodes ==
    [node_type \in {"Nested Loop", "Hash Join", "Merge Join"} |->
        CASE node_type = "Nested Loop" -> "NestedLoopJoin"
          [] node_type = "Hash Join" -> "HashJoin"
          [] node_type = "Merge Join" -> "SortMergeJoin"]

PostgresExplainScanNodes ==
    [node_type \in {"Seq Scan", "Index Scan", "Index Only Scan", "Bitmap Heap Scan"} |->
        CASE node_type = "Seq Scan" -> "SequentialScan"
          [] node_type = "Index Scan" -> "IndexScan"
          [] node_type = "Index Only Scan" -> "IndexOnlyScan"
          [] node_type = "Bitmap Heap Scan" -> "BitmapScan"]

\* explain_data.get(key, default)
get(explain_data, key, default) ==
    IF key \in DOMAIN explain_data THEN explain_data[key] ELSE default

\* a float is the fraction numerator / denominator in lowest terms; nan has denominator 0
NaNFloat == [numerator |-> 0, denominator |-> 0]

RECURSIVE gcd(_, _)
gcd(x, y) == IF y = 0 THEN x ELSE gcd(y, x % y)

\* x / y for a number or nan x and a positive number y
truediv(x, y) ==
    IF x = NaN THEN NaNFloat
    ELSE [numerator |-> x \div gcd(x, y), denominator |-> y \div gcd(x, y)]

\* x + y and x * y for numbers or nan
add(x, y) == IF x = NaN \/ y = NaN THEN NaN ELSE x + y
mul(x, y) == IF x = NaN \/ y = NaN THEN NaN ELSE x * y

\* PostgresExplainNode.__init__
RECURSIVE PostgresExplainNode(_)
PostgresExplainNode(explain_data) ==
    [node_type |-> get(explain_data, "Node Type", None),
     cost |-> get(explain_data, "Total Cost", NaN),
     cardinality_estimate |-> get(explain_data, "Plan Rows", NaN),
     execution_time |-> truediv(get(explain_data, "Actual Total Time", NaN), 1000),
     true_cardinality |-> get(explain_data, "Actual Rows", NaN),
     loops |-> get(explain_data, "Actual Loops", 1),
     relation_name |-> get(explain_data, "Relation Name", None),
     parent_relationship |-> get(explain_data, "Parent Relationship", None),
     parallel_workers |-> get(explain_data, "Workers Launched", NaN),
     children |-> LET plans == get(explain_data, "Plans", <<>>) IN
                  [i \in 1..Len(plans) |-> PostgresExplainNode(plans[i])]]

is_scan(node) == node.node_type \in DOMAIN PostgresExplainScanNodes
is_join(node) == node.node_type \in DOMAIN PostgresExplainJoinNodes

\* the ValueError raised for a node with more than two children, and None for a plan
ValueError == [raised |-> "ValueError"]
NoPlan == [node_type |-> None]

\* db.QueryExecutionPlan: the record of the arguments of the constructor; children is <<>>
\* for None
QueryExecutionPlan(node, children, par_workers, true_card, operator, inner_child) ==
    [node_type |-> node.node_type, is_join |-> is_join(node), is_scan |-> is_scan(node),
     table |-> node.relation_name, children |-> children, parallel_workers |-> par_workers,
     cost |-> node.cost, estimated_cardinality |-> node.cardinality_estimate,
     true_cardinality |-> true_card, execution_time |-> node.execution_time,
     physical_operator |-> operator, inner_child |-> inner_child]

\* variant: the rows of one loop are taken as the true cardinality
plan_of_node_one_loop(node, child_nodes, inner_child) ==
    LET operator == IF is_scan(node) THEN PostgresExplainScanNodes[node.node_type]
                    ELSE IF is_join(node) THEN PostgresExplainJoinNodes[node.node_type]
                    ELSE None IN
    QueryExecutionPlan(node, child_nodes, add(node.parallel_workers, 1), node.true_cardinality,
                       operator, inner_child)

\* variant: a node without a count of launched workers is given one worker
plan_of_node_one_worker(node, child_nodes, inner_child) ==
    LET par_workers == IF node.parallel_workers = NaN THEN 1 ELSE node.parallel_workers + 1
        true_card == mul(node.true_cardinality, node.loops)
        operator == IF is_scan(node) THEN PostgresExplainScanNodes[node.node_type]
                    ELSE IF is_join(node) THEN PostgresExplainJoinNodes[node.node_type]
                    ELSE None IN
    QueryExecutionPlan(node, child_nodes, par_workers, true_card, operator, inner_child)

\* the part of as_query_execution_plan after the children are transformed
plan_of_node(node, child_nodes, inner_child) ==
    LET par_workers == add(node.parallel_workers, 1)
        true_card == mul(node.true_cardinality, node.loops)
        operator == IF is_scan(node) THEN PostgresExplainScanNodes[node.node_type]
                    ELSE IF is_join(node) THEN PostgresExplainJoinNodes[node.node_type]
                    ELSE None IN
    QueryExecutionPlan(node, child_nodes, par_workers, true_card, operator, inner_child)

\* variant: a third child is tolerated
has_too_many_children_above_three(node) == node.children # <<>> /\ Len(node.children) > 3

\* self.children and len(self.children) > 2
has_too_many_children(node) == node.children # <<>> /\ Len(node.children) > 2

\* variant: the second child is the inner one whatever the tags say
inner_child_of_always_second(node, first_child, first_plan, second_plan) == second_plan

\* the choice of inner_child for a node with two children
inner_child_of(node, first_child, first_plan, second_plan) ==
    IF first_child.parent_relationship = "Inner" /\ node.node_type # "Hash Join"
    THEN first_plan ELSE second_plan

\* PostgresExplainNode.as_query_execution_plan; a ValueError of a child propagates
RECURSIVE as_query_execution_plan(_)
as_query_execution_plan(node) ==
    IF has_too_many_children(node)
    THEN ValueError
    ELSE IF Len(node.children) = 1
    THEN LET child_plan == as_query_execution_plan(node.children[1]) IN
         IF child_plan = ValueError THEN ValueError
         ELSE plan_of_node(node, <<child_plan>>, NoPlan)
    ELSE IF Len(node.children) = 2
    THEN LET first_child == node.children[1]
             second_child == node.children[2]
             first_plan == as_query_execution_plan(first_child)
             second_plan == as_query_execution_plan(second_child) IN
         IF first_plan = ValueError \/ second_plan = ValueError THEN ValueError
         ELSE plan_of_node(node, <<first_plan, second_plan>>,
                           inner_child_of(node, first_child, first_plan, second_plan))
    ELSE plan_of_node(node, <<>>, NoPlan)

(***************************************************************************)
(* Specifications of the translation functions: the input is drawn in the  *)
(* initial state, the action applies the function                          *)
(***************************************************************************)
NoResult == [fn |-> "none"]

GuardIdle ==
    /\ server_default = [geqo |-> "off", geqo_threshold |-> 1]
    /\ session = server_default
    /\ geqo_state = _obtain_geqo_state(session)
    /\ query_cache = {}
    /\ calls = [c \in Calls |-> IdleCall]
    /\ serialized = TRUE

HashOnly == [op \in {"HashJoin"} |-> TRUE]
HashAndMerge == [op \in {"HashJoin", "SortMergeJoin"} |-> TRUE]
NestLoopOnly == [op \in {"NestedLoopJoin", "HashJoin", "SequentialScan"} |-> op # "HashJoin"]

ResolverAssignments ==
    {NoAssignment,
     Assignment(<<>>, HashOnly),
     Assignment(<<>>, HashAndMerge),
     Assignment(<<>>, NestLoopOnly),
     Assignment(({"R", "S"} :> "HashJoin") @@ ({"R", "S", "T"} :> "NestedLoopJoin"), NestLoopOnly),
     Assignment(({"R", "S"} :> "NestedLoopJoin") @@ ({"S", "T"} :> "HashJoin")
                @@ ({"R", "S", "T", "U"} :> "HashJoin"), <<>>),
     DirectionalAssignment(({"R", "S"} :> "NestedLoopJoin"), ({"R", "S"} :> {"S"})),
     DirectionalAssignment(({"R", "S"} :> "HashJoin") @@ ({"R", "S", "T"} :> "HashJoin"),
                           ({"R", "S"} :> {"R"}) @@ ({"R", "S", "T"} :> {"T"}))}

InitResolver ==
    /\ GuardIdle
    /\ \E n \in 1..MaxLeaves, mode \in AnnotationModes, operator_assignment \in ResolverAssignments :
          \E k \in 1..NumShapes(n), cards \in [1..n -> Cardinalities] :
              arg = [join_order |-> JoinTree(1, n, k, cards, mode),
                     operator_assignment |-> operator_assignment]
    /\ res = NoResult

\* PostgresHintService.generate_hints, the join order part
GenerateJoinOrderHint ==
    /\ res = NoResult
    /\ res' = [fn |-> "join_order",
               content |-> _generate_leading_hint_content(arg.join_order, arg.operator_assignment),
               hint |-> _generate_pg_join_order_hint(arg.join_order, arg.operator_assignment)]
    /\ UNCHANGED arg

NextResolver == GenerateJoinOrderHint /\ UNCHANGED guardVars
SpecResolver == InitResolver /\ [][NextResolver]_vars

SettingOperators == JoinOperators \cup {"SequentialScan", "IndexScan"}
GlobalSettings == UNION {[D -> BOOLEAN] : D \in SUBSET SettingOperators}

HashJoinAssignments ==
    {NoAssignment}
    \cup {Assignment(join_operators, global_settings) :
             join_operators \in {<<>>} \cup {({"R", "S"} :> op) : op \in JoinOperators},
             global_settings \in GlobalSettings}

TwoTableJoins ==
    {IntermediateJoinNode(BaseTableNode("R", 100), BaseTableNode("S", 10000),
                          Annotate(mode, BaseTableNode("R", 100), BaseTableNode("S", 10000)), NaN) :
        mode \in AnnotationModes}

InitHashJoin ==
    /\ GuardIdle
    /\ arg \in [join_tree_node : TwoTableJoins, operator_assignment : HashJoinAssignments]
    /\ res = NoResult

IsHashJoin ==
    /\ res = NoResult
    /\ res' = [fn |-> "_is_hash_join",
               result |-> _is_hash_join(arg.join_tree_node, arg.operator_assignment)]
    /\ UNCHANGED arg

NextHashJoin == IsHashJoin /\ UNCHANGED guardVars
SpecHashJoin == InitHashJoin /\ [][NextHashJoin]_vars

(***************************************************************************)
(* Inputs and specification of the hint emitter                            *)
(***************************************************************************)
MaxScans == 2
MaxSettings == 2

\* the sequences without repetition of at most n elements of S
DistinctSeqs(S, n) ==
    UNION {{q \in [1..k -> S] : \A i, j \in 1..k : i # j => q[i] # q[j]} : k \in 0..n}

ScanTables == {TableNames[i] : i \in 1..MaxScans}

ScanOperatorMaps ==
    UNION {{[i \in 1..Len(tabs) |-> <<tabs[i], ops[i]>>] : ops \in [1..Len(tabs) -> ScanOperators]}
              : tabs \in DistinctSeqs(ScanTables, MaxScans)}

JoinOperatorMaps == {<<>>} \cup {<< <<(<<"R", "S">>), op>> >> : op \in JoinOperators}

GlobalSettingMaps ==
    {<<>>,
     << <<"HashJoin", TRUE>> >>,
     << <<"NestedLoopJoin", FALSE>>, <<"SequentialScan", TRUE>> >>}

NoOperators == [global_settings |-> <<>>, scan_operators |-> <<>>, join_operators |-> <<>>]
NoParameters == [cardinality_hints |-> <<>>, parallel_worker_hints |-> <<>>,
                 system_specific_settings |-> <<>>]

PhysicalOperatorInputs ==
    [global_settings : GlobalSettingMaps, scan_operators : ScanOperatorMaps,
     join_operators : JoinOperatorMaps]

SettingValues ==
    {BoolValue(TRUE), BoolValue(FALSE), IntValue(0), IntValue(64), FloatValue("0.5"),
     StrValue("64MB")}

SettingNames == <<"work_mem", "jit", "geqo_effort">>

SystemSettingMaps ==
    UNION {{[i \in 1..k |-> <<SettingNames[i], values[i]>>] : values \in [1..k -> SettingValues]}
              : k \in 0..MaxSettings}

CardinalityHintMaps ==
    {<<>>,
     << <<(<<"R", "S">>), 50>> >>,
     << <<(<<"R">>), 7>>, <<(<<"R", "S">>), 50>> >>,
     << <<(<<"R", "S">>), 50>>, <<(<<"S">>), 7>>, <<(<<"R", "S", "T">>), 9>> >>}

ParallelHintMaps ==
    {<<>>,
     << <<(<<"R">>), 2>> >>,
     << <<(<<"R", "S">>), 2>>, <<(<<"S">>), 4>> >>}

PlanParameterInputs ==
    [cardinality_hints : CardinalityHintMaps, parallel_worker_hints : ParallelHintMaps,
     system_specific_settings : SystemSettingMaps]

InitEmitter ==
    /\ GuardIdle
    /\ arg \in [physical_operators : PhysicalOperatorInputs, plan_parameters : {NoParameters}]
              \cup [physical_operators : {NoOperators}, plan_parameters : PlanParameterInputs]
    /\ res = NoResult

\* PostgresHintService.generate_hints, the operator part
GenerateOperatorHints ==
    /\ res = NoResult
    /\ arg.physical_operators # NoOperators
    /\ res' = [fn |-> "_generate_pg_operator_hints",
               parts |-> _generate_pg_operator_hints(arg.physical_operators)]
    /\ UNCHANGED arg

\* PostgresHintService.generate_hints, the plan parameter part
GenerateParameterHints ==
    /\ res = NoResult
    /\ arg.plan_parameters # NoParameters
    /\ res' = [fn |-> "_generate_pg_parameter_hints",
               parts |-> _generate_pg_parameter_hints(arg.plan_parameters)]
    /\ UNCHANGED arg

NextEmitter ==
    /\ \/ GenerateOperatorHints
       \/ GenerateParameterHints
    /\ UNCHANGED guardVars
SpecEmitter == InitEmitter /\ [][NextEmitter]_vars

(***************************************************************************)
(* Inputs and specification of merging hint parts and building the clause  *)
(***************************************************************************)
MaxFragments == 4

SettingTexts == {"SET enable_hashjoin = 'on';", "SET enable_nestloop = 'off';", "SET work_mem = 64;"}
HintLists == {<<>>, <<"HashJoin(R S)">>, <<"SeqScan(R)">>}

\* the hint parts of the join order (a), of the operators (b) and of the parameters (c)
InitMerge ==
    /\ GuardIdle
    /\ \E la, lb, lc \in 0..MaxFragments :
          /\ la + lb + lc <= MaxFragments
          /\ \E sa \in [1..la -> SettingTexts], sb \in [1..lb -> SettingTexts],
                sc \in [1..lc -> SettingTexts], ha, hb, hc \in HintLists :
                 arg = [a |-> HintParts(sa, ha), b |-> HintParts(sb, hb), c |-> HintParts(sc, hc)]
    /\ res = NoResult

\* HintParts.merge_with, applied to the three parts in both groupings
MergeWith ==
    /\ res = NoResult
    /\ res' = [fn |-> "merge_with",
               ab |-> merge_with(arg.a, arg.b),
               ab_c |-> merge_with(merge_with(arg.a, arg.b), arg.c),
               a_bc |-> merge_with(arg.a, merge_with(arg.b, arg.c)),
               a_empty |-> merge_with(arg.a, HintParts(<<>>, <<>>))]
    /\ UNCHANGED arg

\* PostgresHintService.generate_hints: the parts are merged and the clause is built
GenerateHintBlock ==
    /\ res = NoResult
    /\ LET hint_parts == merge_with(merge_with(arg.a, arg.b), arg.c) IN
           res' = [fn |-> "_generate_hint_block", parts |-> hint_parts,
                   hint_block |-> _generate_hint_block(hint_parts)]
    /\ UNCHANGED arg

NextMerge ==
    /\ \/ MergeWith
       \/ GenerateHintBlock
    /\ UNCHANGED guardVars
SpecMerge == InitMerge /\ [][NextMerge]_vars

(***************************************************************************)
(* Inputs and specification of the native plan normalizer                  *)
(***************************************************************************)
MaxChildren == 3

NodeTypes ==
    {"Nested Loop", "Hash Join", "Merge Join", "Seq Scan", "Index Scan", "Index Only Scan",
     "Bitmap Heap Scan", "Sort"}

\* the numeric fields a node reports: all of them, none of them (plain EXPLAIN), or all but one
Measurements ==
    {("Total Cost" :> 90 @@ "Plan Rows" :> 12 @@ "Actual Total Time" :> 1500 @@ "Actual Rows" :> 10
         @@ "Actual Loops" :> 4 @@ "Workers Launched" :> 2),
     ("Total Cost" :> 5 @@ "Plan Rows" :> 1 @@ "Actual Total Time" :> 250 @@ "Actual Rows" :> 3
         @@ "Actual Loops" :> 1 @@ "Workers Launched" :> 0),
     ("Total Cost" :> 90 @@ "Plan Rows" :> 12),
     ("Total Cost" :> 90 @@ "Plan Rows" :> 12 @@ "Actual Total Time" :> 1500 @@ "Actual Rows" :> 10
         @@ "Actual Loops" :> 4),
     ("Total Cost" :> 90 @@ "Plan Rows" :> 12 @@ "Actual Total Time" :> 1500 @@ "Actual Rows" :> 10
         @@ "Workers Launched" :> 2),
     ("Actual Rows" :> 10 @@ "Actual Loops" :> 4 @@ "Workers Launched" :> 2)}

\* which child the report tags as the inner one
TagPatterns == {"first", "second", "none"}

ParentRelationship(pattern, i) ==
    CASE pattern = "none" -> <<>>
      [] pattern = "first" /\ i = 1 -> ("Parent Relationship" :> "Inner")
      [] pattern = "second" /\ i = 2 -> ("Parent Relationship" :> "Inner")
      [] OTHER -> ("Parent Relationship" :> "Outer")

\* the i-th child of the root, itself with k scans as children
ChildData(pattern, i, k) ==
    ("Node Type" :> (CASE k = 0 -> "Index Scan" [] k = 1 -> "Sort" [] OTHER -> "Merge Join"))
    @@ ParentRelationship(pattern, i)
    @@ (IF k = 0 THEN ("Relation Name" :> TableNames[i])
        ELSE ("Plans" :> [j \in 1..k |-> ("Node Type" :> "Seq Scan" @@ "Relation Name" :> "R")]))

ExplainData(node_type, measurements, pattern, grandchildren) ==
    ("Node Type" :> node_type) @@ measurements
    @@ (IF grandchildren = <<>> THEN ("Relation Name" :> "R")
        ELSE ("Plans" :> [i \in 1..Len(grandchildren) |-> ChildData(pattern, i, grandchildren[i])]))

InitNormalizer ==
    /\ GuardIdle
    /\ \E node_type \in NodeTypes, measurements \in Measurements, pattern \in TagPatterns :
          \E n \in 0..MaxChildren :
              \E grandchildren \in [1..n -> 0..MaxChildren] :
                  arg = [explain_data |-> ExplainData(node_type, measurements, pattern, grandchildren)]
    /\ res = NoResult

\* PostgresExplainPlan.__init__: the report is parsed into nodes
ParseExplainData ==
    /\ res = NoResult
    /\ res' = [fn |-> "PostgresExplainNode", query_plan |-> PostgresExplainNode(arg.explain_data)]
    /\ UNCHANGED arg

\* PostgresExplainPlan.__init__: the parsed nodes are normalized
Normalize ==
    /\ res.fn = "PostgresExplainNode"
    /\ res' = [fn |-> "as_query_execution_plan", query_plan |-> res.query_plan,
               normalized_plan |-> as_query_execution_plan(res.query_plan)]
    /\ UNCHANGED arg

NextNormalizer ==
    /\ \/ ParseExplainData
       \/ Normalize
    /\ UNCHANGED guardVars
SpecNormalizer == InitNormalizer /\ [][NextNormalizer]_vars

(***************************************************************************)
(* Properties of the native plan normalizer                                *)
(***************************************************************************)
ReportsMeasurements(explain_data) ==
    {"Actual Total Time", "Actual Rows", "Actual Loops", "Workers Launched"} \subseteq DOMAIN explain_data

\* the float equals milliseconds / 1000
IsSecondsOf(float, milliseconds) ==
    float.denominator > 0 /\ float.numerator * 1000 = milliseconds * float.denominator

Normalized == res.fn = "as_query_execution_plan" /\ res.normalized_plan # ValueError

\* C15: for a node that reports time, rows, loops and launched workers, the parsed node and
\* the normalized plan have execution_time = time / 1000, and the normalized plan has
\* true_cardinality = rows * loops and parallel_workers = workers + 1; time 1500, rows 10,
\* loops 4 and workers 2 give 1.5 (= 3/2), 40 and 3.
C15_NormalizedMeasurements ==
    (res.fn # "none" /\ ReportsMeasurements(arg.explain_data)) =>
        LET data == arg.explain_data
            plan == res.normalized_plan IN
        /\ IsSecondsOf(res.query_plan.execution_time, data["Actual Total Time"])
        /\ Normalized =>
              /\ IsSecondsOf(plan.execution_time, data["Actual Total Time"])
              /\ plan.true_cardinality = data["Actual Rows"] * data["Actual Loops"]
              /\ plan.parallel_workers = data["Workers Launched"] + 1
              /\ (data["Actual Total Time"] = 1500 /\ data["Actual Rows"] = 10
                     /\ data["Actual Loops"] = 4 /\ data["Workers Launched"] = 2)
                    => /\ plan.execution_time = [numerator |-> 3, denominator |-> 2]
                       /\ plan.true_cardinality = 40
                       /\ plan.parallel_workers = 3

\* the hash join of the example, with two children, was normalized
C15_Witness ==
    /\ Normalized
    /\ arg.explain_data["Node Type"] = "Hash Join"
    /\ Len(get(arg.explain_data, "Plans", <<>>)) = 2
    /\ ReportsMeasurements(arg.explain_data)
    /\ arg.explain_data["Actual Loops"] = 4
    /\ res.normalized_plan.execution_time = [numerator |-> 3, denominator |-> 2]
    /\ res.normalized_plan.true_cardinality = 40
    /\ res.normalized_plan.parallel_workers = 3

\* some node of the report has more than two children
RECURSIVE HasWideNode(_)
HasWideNode(explain_data) ==
    LET plans == get(explain_data, "Plans", <<>>) IN
    Len(plans) > 2 \/ \E i \in 1..Len(plans) : HasWideNode(plans[i])

\* C16: normalization raises the structural error, and gives no plan, exactly when some
\* node of the report, the root or a nested one, has more than two children.
C16_StructuralError ==
    res.fn = "as_query_execution_plan" =>
        (res.normalized_plan = ValueError <=> HasWideNode(arg.explain_data))

\* the error was raised for a root with two children one of which has three children
C16_Witness ==
    /\ res.fn = "as_query_execution_plan"
    /\ res.normalized_plan = ValueError
    /\ Len(get(arg.explain_data, "Plans", <<>>)) = 2
    /\ Len(get(arg.explain_data["Plans"][1], "Plans", <<>>)) = 1
    /\ Len(get(arg.explain_data["Plans"][2], "Plans", <<>>)) = 3

\* the root of the report has exactly two children and the report tags the i-th as inner
TwoChildrenInnerAt(i) ==
    LET plans == get(arg.explain_data, "Plans", <<>>) IN
    /\ Len(plans) = 2
    /\ get(plans[i], "Parent Relationship", None) = "Inner"
    /\ get(plans[3 - i], "Parent Relationship", None) # "Inner"

\* C25: for a node that is not a hash join and has exactly two children one of which is
\* tagged as inner, the inner_child of the normalized plan is the normalized form of the
\* tagged child, be it the first or the second.
C25_InnerChildIsTagged ==
    (Normalized /\ arg.explain_data["Node Type"] # "Hash Join") =>
        \A i \in 1..2 :
            TwoChildrenInnerAt(i) =>
                /\ res.normalized_plan.inner_child = res.normalized_plan.children[i]
                /\ res.normalized_plan.inner_child
                      = as_query_execution_plan(res.query_plan.children[i])

\* a nested-loop join whose first child is tagged as inner and differs from the second was
\* normalized
C25_Witness ==
    /\ Normalized
    /\ arg.explain_data["Node Type"] = "Nested Loop"
    /\ TwoChildrenInnerAt(1)
    /\ res.normalized_plan.children[1] # res.normalized_plan.children[2]
    /\ res.normalized_plan.inner_child = res.normalized_plan.children[1]

\* C26: for a hash join with exactly two children one of which is tagged as inner, the
\* inner_child of the normalized plan is the normalized form of the other child, the one
\* that is not tagged, be the tagged child the first or the second.
C26_HashJoinInnerChildInverted ==
    (Normalized /\ arg.explain_data["Node Type"] = "Hash Join") =>
        \A i \in 1..2 :
            TwoChildrenInnerAt(i) =>
                res.normalized_plan.inner_child = res.normalized_plan.children[3 - i]

\* the defaults of the fields other than the worker count: a missing loop count is 1, so
\* that the true cardinality is the reported rows, and a missing cost, estimate, row count
\* or time is nan in the parsed node and in the normalized plan
OtherDefaults ==
    LET data == arg.explain_data
        node == res.query_plan
        plan == res.normalized_plan IN
    /\ "Actual Loops" \notin DOMAIN data =>
          /\ node.loops = 1
          /\ (Normalized /\ "Actual Rows" \in DOMAIN data) =>
                 plan.true_cardinality = data["Actual Rows"]
    /\ "Total Cost" \notin DOMAIN data =>
          node.cost = NaN /\ (Normalized => plan.cost = NaN)
    /\ "Plan Rows" \notin DOMAIN data =>
          node.cardinality_estimate = NaN /\ (Normalized => plan.estimated_cardinality = NaN)
    /\ "Actual Rows" \notin DOMAIN data =>
          node.true_cardinality = NaN /\ (Normalized => plan.true_cardinality = NaN)
    /\ "Actual Total Time" \notin DOMAIN data =>
          node.execution_time = NaNFloat /\ (Normalized => plan.execution_time = NaNFloat)

\* C27: a node that reports no count of launched workers is normalized to
\* parallel_workers = 1 (a default of 0, plus one); a missing loop count is 1 and a missing
\* cost, estimate, row count or time is nan.
C27_MissingWorkersIsOne ==
    res.fn # "none" =>
        /\ OtherDefaults
        /\ (Normalized /\ "Workers Launched" \notin DOMAIN arg.explain_data) =>
               res.normalized_plan.parallel_workers = 1

\* C27, as the code has it: a node that reports no count of launched workers has
\* parallel_workers = nan, parsed and normalized (nan + 1 is nan); a missing loop count is
\* 1 and a missing cost, estimate, row count or time is nan.
C27_MissingWorkersIsNaN ==
    res.fn # "none" =>
        /\ OtherDefaults
        /\ "Workers Launched" \notin DOMAIN arg.explain_data =>
               /\ res.query_plan.parallel_workers = NaN
               /\ Normalized => res.normalized_plan.parallel_workers = NaN

\* a node of a plain EXPLAIN report, with cost and estimate only, was normalized
C27_Witness ==
    /\ Normalized
    /\ DOMAIN arg.explain_data \cap {"Actual Total Time", "Actual Rows", "Actual Loops",
                                      "Workers Launched"} = {}
    /\ "Total Cost" \in DOMAIN arg.explain_data
    /\ res.query_plan.loops = 1
    /\ res.normalized_plan.parallel_workers = NaN
    /\ res.normalized_plan.execution_time = NaNFloat
    /\ res.normalized_plan.cost = 90

\* the node type the backend reports for a node that honours a hint verb
ReportedNodeType(verb) ==
    CASE verb = "SeqScan" -> "Seq Scan"
      [] verb = "IndexScan" -> "Index Scan"
      [] verb = "IndexOnlyScan" -> "Index Only Scan"
      [] verb = "BitmapScan" -> "Bitmap Heap Scan"
      [] verb = "NestLoop" -> "Nested Loop"
      [] verb = "HashJoin" -> "Hash Join"
      [] verb = "MergeJoin" -> "Merge Join"

\* C17: for every scan or join operator, a node of the type the backend reports when it
\* honours the operator's hint verb is normalized to a plan with that operator as its tag.
C17_OperatorRoundTrip ==
    Normalized =>
        \A op \in JoinOperators \cup ScanOperators :
            arg.explain_data["Node Type"] = ReportedNodeType(PostgresOptimizerHints[op])
                => res.normalized_plan.physical_operator = op

(***************************************************************************)
(* Properties of the hint emitter                                          *)
(***************************************************************************)
\* the verb the interface lists for each scan operator
ListedScanVerb(op) ==
    CASE op = "SequentialScan" -> "SeqScan"
      [] op = "IndexScan" -> "IndexScan"
      [] op = "IndexOnlyScan" -> "IndexOnlyScan"
      [] op = "BitmapScan" -> "BitmapScan"

\* C9: the i-th scan assignment (table, operator) is emitted as the i-th hint
\* "<verb>(<table>)" with the verb listed for the operator, and two different scan
\* operators never give the same verb.
C9_ScanHintVerbs ==
    res.fn = "_generate_pg_operator_hints" =>
        LET scans == arg.physical_operators.scan_operators IN
        /\ \A i \in 1..Len(scans) :
              res.parts.hints[i] = ListedScanVerb(scans[i][2]) \o "(" \o scans[i][1] \o ")"
        /\ \A i, j \in 1..Len(scans) :
              scans[i][2] # scans[j][2]
                 => PostgresOptimizerHints[scans[i][2]] # PostgresOptimizerHints[scans[j][2]]

\* how the interface renders a setting value
ListedSettingValue(value) ==
    CASE value.type = "bool" -> IF value.bool THEN "'on'" ELSE "'off'"
      [] value.type = "int" -> ToString(value.int)
      [] value.type = "float" -> value.text
      [] OTHER -> "'" \o value.text \o "'"

\* C10: the i-th system-specific setting (name, value) is emitted as the i-th fragment
\* "SET <name> = <value>;" with a boolean rendered as 'on' or 'off', a number as a bare
\* literal and any other value in single quotes.
C10_SettingFragments ==
    res.fn = "_generate_pg_parameter_hints" =>
        LET settings == arg.plan_parameters.system_specific_settings IN
        /\ Len(res.parts.settings) = Len(settings)
        /\ \A i \in 1..Len(settings) :
              res.parts.settings[i] =
                  "SET " \o settings[i][1] \o " = " \o ListedSettingValue(settings[i][2]) \o ";"

\* the hint texts of the interface for one cardinality hint and one parallel worker hint
RowsHint(item) == "Rows(" \o _generate_join_key(item[1]) \o " #" \o ToString(item[2]) \o ")"
ParallelHint(item) == "Parallel(" \o item[1][1] \o " " \o ToString(item[2]) \o " hard)"

IsJoin(item) == Len(item[1]) >= 2
IsBaseTable(item) == Len(item[1]) = 1

\* C11: the call returns fragments; its hints are the Rows hints of exactly the cardinality
\* hints over two or more tables, in input order, followed by the Parallel hints of exactly
\* the parallel worker hints over one table, in input order; one advisory is recorded per
\* skipped item; and every system-specific setting gives one SET fragment, in input order.
C11_UnsupportedHintsSkipped ==
    res.fn = "_generate_pg_parameter_hints" =>
        LET p == arg.plan_parameters
            rows == SelectSeq(p.cardinality_hints, IsJoin)
            parallel == SelectSeq(p.parallel_worker_hints, IsBaseTable)
            settings == p.system_specific_settings IN
        /\ res.parts.hints = [i \in 1..Len(rows) |-> RowsHint(rows[i])]
                               \o [i \in 1..Len(parallel) |-> ParallelHint(parallel[i])]
        /\ res.parts.warnings = (Len(p.cardinality_hints) - Len(rows))
                                  + (Len(p.parallel_worker_hints) - Len(parallel))
        /\ Len(res.parts.settings) = Len(settings)
        /\ \A i \in 1..Len(settings) :
              res.parts.settings[i] =
                  "SET " \o settings[i][1] \o " = " \o _escape_setting(settings[i][2]) \o ";"

\* a base-table cardinality hint and a join parallel hint were skipped, the others kept
C11_Witness ==
    /\ res.fn = "_generate_pg_parameter_hints"
    /\ res.parts.warnings = 2
    /\ res.parts.hints = <<"Rows(R S #50)", "Rows(R S T #9)", "Parallel(S 4 hard)">>
    /\ Len(res.parts.settings) = MaxSettings

(***************************************************************************)
(* Properties of merging hint parts and building the clause                *)
(***************************************************************************)
Occurs(x, seq) == \E i \in 1..Len(seq) : seq[i] = x

\* first followed by the elements of second that do not occur in first, in second's order
FollowedByNew(first, second) ==
    LET IsNew(x) == ~Occurs(x, first) IN
    first \o SelectSeq(second, IsNew)

\* C12: merge(a, b) has a's settings followed by the settings of b that do not occur in a,
\* in b's order, and the same for the hints; settings [A, B] merged with [B, C] are
\* [A, B, C]; and merging with the empty fragments returns the fragments unchanged.
C12_MergeAppendsNew ==
    res.fn = "merge_with" =>
        /\ res.ab.settings = FollowedByNew(arg.a.settings, arg.b.settings)
        /\ res.ab.hints = FollowedByNew(arg.a.hints, arg.b.hints)
        /\ \A A, B, C \in SettingTexts :
              (arg.a.settings = <<A, B>> /\ arg.b.settings = <<B, C>> /\ A # B /\ A # C /\ B # C)
                  => res.ab.settings = <<A, B, C>>
        /\ res.a_empty = arg.a

\* settings [A, B] and [B, C] were merged, with hints on both sides
C12_Witness ==
    /\ res.fn = "merge_with"
    /\ arg.a = HintParts(<<"SET enable_hashjoin = 'on';", "SET work_mem = 64;">>, <<"SeqScan(R)">>)
    /\ arg.b = HintParts(<<"SET work_mem = 64;", "SET enable_nestloop = 'off';">>, <<"SeqScan(R)">>)
    /\ res.ab = HintParts(<<"SET enable_hashjoin = 'on';", "SET work_mem = 64;",
                            "SET enable_nestloop = 'off';">>, <<"SeqScan(R)">>)

\* C13: merging a with b and the result with c gives the same settings and the same hints,
\* in the same order, as merging a with the result of merging b with c.
C13_MergeAssociative ==
    res.fn = "merge_with" => res.ab_c = res.a_bc

\* three parts were merged where b repeats a setting of a, c repeats a setting of b that
\* a does not have, and the hints of b and c are the same
C13_Witness ==
    /\ res.fn = "merge_with"
    /\ arg.a.settings # <<>>
    /\ \E i \in 1..Len(arg.b.settings) : Occurs(arg.b.settings[i], arg.a.settings)
    /\ \E i \in 1..Len(arg.c.settings) :
          Occurs(arg.c.settings[i], arg.b.settings) /\ ~Occurs(arg.c.settings[i], arg.a.settings)
    /\ arg.a.hints = <<>> /\ arg.b.hints # <<>> /\ arg.b.hints = arg.c.hints
    /\ Len(res.ab_c.settings) = 2 /\ Len(res.ab_c.hints) = 1
    /\ res.ab_c = res.a_bc

\* the first n lines, each but the first preceded by a newline
RECURSIVE NewlineJoined(_, _)
NewlineJoined(lines, n) ==
    IF n = 0 THEN ""
    ELSE IF n = 1 THEN lines[1]
    ELSE NewlineJoined(lines, n - 1) \o "\n" \o lines[n]

\* the first n hints, each on a line of its own, indented
RECURSIVE IndentedLines(_, _)
IndentedLines(hints, n) ==
    IF n = 0 THEN "" ELSE IndentedLines(hints, n - 1) \o "  " \o hints[n] \o "\n"

\* C14: no clause is built if and only if there are neither settings nor hints; otherwise the
\* clause holds the settings joined by newlines and, if there is a hint, the line /*+, one
\* indented line per hint in order and the line */, and an empty hints part if there is none.
C14_HintBlock ==
    res.fn = "_generate_hint_block" =>
        LET settings == res.parts.settings
            hints == res.parts.hints IN
        /\ ~res.hint_block.present <=> (settings = <<>> /\ hints = <<>>)
        /\ res.hint_block.present =>
              /\ res.hint_block.preparatory_statements = NewlineJoined(settings, Len(settings))
              /\ res.hint_block.query_hints =
                     IF hints = <<>> THEN ""
                     ELSE "/*+\n" \o IndentedLines(hints, Len(hints)) \o "*/"

\* a clause was built from two settings and two hints
C14_Witness ==
    /\ res.fn = "_generate_hint_block"
    /\ res.hint_block.present
    /\ res.hint_block.preparatory_statements = "SET work_mem = 64;\nSET enable_nestloop = 'off';"
    /\ res.hint_block.query_hints = "/*+\n  HashJoin(R S)\n  SeqScan(R)\n*/"

(***************************************************************************)
(* Properties of the join-direction resolver and the build-probe test      *)
(***************************************************************************)
RECURSIVE Occurrences(_, _)
Occurrences(tokens, token) ==
    IF tokens = <<>> THEN 0
    ELSE (IF Head(tokens) = token THEN 1 ELSE 0) + Occurrences(Tail(tokens), token)

\* deepest parenthesis nesting of a token sequence
RECURSIVE DepthFrom(_, _)
DepthFrom(tokens, open) ==
    IF tokens = <<>> THEN open
    ELSE LET now == CASE Head(tokens) = "(" -> open + 1
                      [] Head(tokens) = ")" -> open - 1
                      [] OTHER -> open
             rest == DepthFrom(Tail(tokens), now) IN
         IF rest > now THEN rest ELSE now

NestingDepth(tokens) == DepthFrom(tokens, 0)

RECURSIVE InteriorNodes(_)
InteriorNodes(node) ==
    IF node.kind = "base" THEN 0
    ELSE 1 + InteriorNodes(node.left_child) + InteriorNodes(node.right_child)

RECURSIVE Height(_)
Height(node) ==
    IF node.kind = "base" THEN 0
    ELSE LET l == Height(node.left_child)
             r == Height(node.right_child) IN
         1 + (IF l > r THEN l ELSE r)

\* the table list between "Leading(" and the closing ")"
LeadingArgument(hint) == SubSeq(hint, 2, Len(hint) - 1)

EnabledJoinOperators(operator_assignment) ==
    {op \in JoinOperators : op \in DOMAIN operator_assignment.global_settings
                            /\ operator_assignment.global_settings[op]}

\* the join R JOIN S of the example: R (100 rows) left, S (10,000 rows) right, no annotation,
\* an assignment without an operator for {R, S}
IsExampleJoin ==
    /\ res.fn = "join_order"
    /\ arg.join_order = IntermediateJoinNode(BaseTableNode("R", 100), BaseTableNode("S", 10000),
                                             NoAnnotation, 10100)
    /\ arg.operator_assignment.present
    /\ {"R", "S"} \notin DOMAIN arg.operator_assignment.join_operators

C6_EachLeafOnce ==
    res.fn = "join_order" =>
        \A table \in tables(arg.join_order) :
            /\ Occurrences(res.content, table) = 1
            /\ res.hint # <<>> => Occurrences(res.hint, table) = 1

\* a four-table tree whose joins carry directional hash-join annotations was resolved
C6_Witness ==
    /\ res.fn = "join_order"
    /\ Cardinality(tables(arg.join_order)) = 4
    /\ arg.join_order.annotation.kind = "directional"
    /\ arg.join_order.annotation.operator = "HashJoin"
    /\ Head(res.hint) = "Leading("

\* C7 as stated: the nesting depth of the table list of the Leading directive equals the
\* number of intermediate join nodes.
C7_DepthIsInteriorCount ==
    (res.fn = "join_order" /\ res.hint # <<>>) =>
        NestingDepth(LeadingArgument(res.hint)) = InteriorNodes(arg.join_order)

\* C7 amended: the nesting depth of the table list equals the height of the join tree, and
\* the number of opening (and of closing) parentheses equals the number of join nodes.
C7_DepthIsHeight ==
    (res.fn = "join_order" /\ res.hint # <<>>) =>
        /\ NestingDepth(LeadingArgument(res.hint)) = Height(arg.join_order)
        /\ Occurrences(LeadingArgument(res.hint), "(") = InteriorNodes(arg.join_order)
        /\ Occurrences(LeadingArgument(res.hint), ")") = InteriorNodes(arg.join_order)

\* a bushy tree was resolved: three join nodes, nesting depth two
C7_Witness ==
    /\ res.fn = "join_order"
    /\ InteriorNodes(arg.join_order) = 3
    /\ Height(arg.join_order) = 2
    /\ NestingDepth(LeadingArgument(res.hint)) = 2

\* the intermediate join nodes of a join tree
RECURSIVE JoinNodes(_)
JoinNodes(node) ==
    IF node.kind = "base" THEN {}
    ELSE {node} \cup JoinNodes(node.left_child) \cup JoinNodes(node.right_child)

\* a join without directional information whose children have different finite estimates
HasSmallerChild(node) ==
    /\ node.annotation.kind # "directional"
    /\ isfinite(node.left_child.cardinality) /\ isfinite(node.right_child.cardinality)
    /\ node.left_child.cardinality # node.right_child.cardinality

SmallerChild(node) ==
    IF node.left_child.cardinality < node.right_child.cardinality
    THEN node.left_child ELSE node.right_child

LargerChild(node) ==
    IF node.left_child.cardinality < node.right_child.cardinality
    THEN node.right_child ELSE node.left_child

\* the text "(<outer> <inner>)" of a join with the given outer and inner child
RenderedAs(outer, inner) ==
    <<"(">> \o _generate_leading_hint_content(outer, arg.operator_assignment) \o <<" ">>
    \o _generate_leading_hint_content(inner, arg.operator_assignment) \o <<")">>

IsInfix(part, whole) ==
    \E i \in 0..(Len(whole) - Len(part)) : SubSeq(whole, i + 1, i + Len(part)) = part

\* C19: every join of the tree that has no directional information, children with two
\* different finite estimates and is a hash join is rendered, within the ordering string,
\* as "(<larger child> <smaller child>)": the smaller child is inner, the larger outer.
C19_HashJoinSmallerInner ==
    res.fn = "join_order" =>
        \A node \in JoinNodes(arg.join_order) :
            (HasSmallerChild(node) /\ _is_hash_join(node, arg.operator_assignment)) =>
                /\ _generate_leading_hint_content(node, arg.operator_assignment)
                      = RenderedAs(LargerChild(node), SmallerChild(node))
                /\ IsInfix(RenderedAs(LargerChild(node), SmallerChild(node)), res.content)

\* a tree was resolved whose root is a hash join with the smaller child on the right and
\* whose left child is a hash join with the smaller child on the left
C19_Witness ==
    /\ res.fn = "join_order"
    /\ arg.join_order.kind = "join"
    /\ HasSmallerChild(arg.join_order)
    /\ _is_hash_join(arg.join_order, arg.operator_assignment)
    /\ SmallerChild(arg.join_order) = arg.join_order.right_child
    /\ arg.join_order.left_child.kind = "join"
    /\ HasSmallerChild(arg.join_order.left_child)
    /\ _is_hash_join(arg.join_order.left_child, arg.operator_assignment)
    /\ SmallerChild(arg.join_order.left_child) = arg.join_order.left_child.left_child
    /\ res.content = RenderedAs(arg.join_order.left_child, arg.join_order.right_child)

\* C20: every join of the tree that has no directional information, children with two
\* different finite estimates and is not a hash join is rendered as
\* "(<smaller child> <larger child>)": the smaller child is outer, the larger inner.
C20_OtherJoinSmallerOuter ==
    res.fn = "join_order" =>
        \A node \in JoinNodes(arg.join_order) :
            (HasSmallerChild(node) /\ ~_is_hash_join(node, arg.operator_assignment)) =>
                _generate_leading_hint_content(node, arg.operator_assignment)
                    = RenderedAs(SmallerChild(node), LargerChild(node))

\* C21: every join of the tree that has no directional information and a child without a
\* finite estimate is rendered, within the ordering string, as "(<left child> <right child>)",
\* whatever operator is assigned or enabled.
C21_UnknownEstimateLeftOuter ==
    res.fn = "join_order" =>
        \A node \in JoinNodes(arg.join_order) :
            (/\ node.annotation.kind # "directional"
             /\ ~isfinite(node.left_child.cardinality) \/ ~isfinite(node.right_child.cardinality)) =>
                /\ _generate_leading_hint_content(node, arg.operator_assignment)
                      = RenderedAs(node.left_child, node.right_child)
                /\ IsInfix(RenderedAs(node.left_child, node.right_child), res.content)

\* a hash join whose left child is a join of a table without estimate was resolved
C21_Witness ==
    /\ res.fn = "join_order"
    /\ arg.join_order.kind = "join"
    /\ arg.join_order.annotation.kind # "directional"
    /\ _is_hash_join(arg.join_order, arg.operator_assignment)
    /\ arg.join_order.left_child.kind = "join"
    /\ ~isfinite(arg.join_order.left_child.cardinality)
    /\ isfinite(arg.join_order.right_child.cardinality)
    /\ res.content = RenderedAs(arg.join_order.left_child, arg.join_order.right_child)

\* the child a directional annotation names as the inner one, and the other child
NamedInner(node, inner_tables) ==
    IF tables(node.left_child) = inner_tables THEN node.left_child ELSE node.right_child

NamedOuter(node, inner_tables) ==
    IF tables(node.left_child) = inner_tables THEN node.right_child ELSE node.left_child

NamesChild(node, inner_tables) ==
    inner_tables \in {tables(node.left_child), tables(node.right_child)}

\* the text of a join whose operator names the inner tables: "(<outer> <inner>)", and the
\* two swapped for a hash join
DirectedAs(node, operator, inner_tables) ==
    IF operator = "HashJoin"
    THEN RenderedAs(NamedInner(node, inner_tables), NamedOuter(node, inner_tables))
    ELSE RenderedAs(NamedOuter(node, inner_tables), NamedInner(node, inner_tables))

\* C22: every join of the tree that is annotated with a directional operator naming the
\* tables of one child as inner is rendered with that child as inner and the other as
\* outer, the two swapped for a hash join, whatever the estimates of the children are.
C22_AnnotationDirects ==
    res.fn = "join_order" =>
        \A node \in JoinNodes(arg.join_order) :
            (node.annotation.kind = "directional" /\ NamesChild(node, node.annotation.inner)) =>
                /\ _generate_leading_hint_content(node, arg.operator_assignment)
                      = DirectedAs(node, node.annotation.operator, node.annotation.inner)
                /\ IsInfix(DirectedAs(node, node.annotation.operator, node.annotation.inner),
                           res.content)

\* a hash join annotated with its smaller left child as inner was resolved: the left child
\* is rendered first, where the estimates alone would put it second
C22_Witness ==
    /\ res.fn = "join_order"
    /\ arg.join_order.kind = "join"
    /\ arg.join_order.annotation = Directional("HashJoin", tables(arg.join_order.left_child))
    /\ isfinite(arg.join_order.left_child.cardinality)
    /\ isfinite(arg.join_order.right_child.cardinality)
    /\ arg.join_order.left_child.cardinality < arg.join_order.right_child.cardinality
    /\ res.content = RenderedAs(arg.join_order.left_child, arg.join_order.right_child)

\* the operator assignment holds a directional operator for the tables of the join, naming
\* the tables of one child as inner
AssignmentDirects(node) ==
    /\ arg.operator_assignment.present
    /\ tables(node) \in DOMAIN arg.operator_assignment.join_inner
    /\ NamesChild(node, arg.operator_assignment.join_inner[tables(node)])

C8_OnlyEnabledJoinOperator ==
    (/\ res.fn = "_is_hash_join"
     /\ arg.operator_assignment.present
     /\ tables(arg.join_tree_node) \notin DOMAIN arg.operator_assignment.join_operators)
        => (res.result <=> EnabledJoinOperators(arg.operator_assignment) = {"HashJoin"})

\* hash join is the only enabled join operator next to an enabled scan operator and a
\* disabled join operator, and the test answered true
C8_Witness ==
    /\ res.fn = "_is_hash_join"
    /\ arg.operator_assignment.present
    /\ arg.operator_assignment.join_operators = <<>>
    /\ arg.operator_assignment.global_settings =
          [op \in {"HashJoin", "SortMergeJoin", "SequentialScan"} |-> op # "SortMergeJoin"]
    /\ res.result

\* C24: with an assignment that holds an operator for the join's tables, _is_hash_join
\* is true exactly if that operator is hash join, whatever the global settings and the
\* annotation of the node are.
C24_PerJoinOperatorDecides ==
    (/\ res.fn = "_is_hash_join"
     /\ arg.operator_assignment.present
     /\ tables(arg.join_tree_node) \in DOMAIN arg.operator_assignment.join_operators)
        => (res.result <=>
               arg.operator_assignment.join_operators[tables(arg.join_tree_node)] = "HashJoin")

\* a nested-loop join is assigned to the join while hash join is the only globally
\* enabled join operator and the node is annotated as a hash join, and the test answered
\* false
C24_Witness ==
    /\ res.fn = "_is_hash_join"
    /\ arg.operator_assignment.present
    /\ arg.operator_assignment.join_operators = ({"R", "S"} :> "NestedLoopJoin")
    /\ EnabledJoinOperators(arg.operator_assignment) = {"HashJoin"}
    /\ arg.join_tree_node.annotation = PhysicalJoinMetadata("HashJoin")
    /\ ~res.result

(***************************************************************************)
(* Properties of the GeQO guard                                            *)
(***************************************************************************)
SessionMatchesSnapshot == _obtain_geqo_state(session) = geqo_state

RestoreDirectives ==
    <<SetGeqo(IF geqo_state.enabled THEN "on" ELSE "off"), SetGeqoThreshold(geqo_state.threshold)>>

EndsWithRestore(sent) ==
    Len(sent) >= 2 /\ SubSeq(sent, Len(sent) - 1, Len(sent)) = RestoreDirectives

MainQuerySent(call) == \E i \in 1..Len(call.sent) : call.sent[i][1] = "QUERY"

MentionsGeqo(text) == Contains(lower(text), GeqoName)

\* C1: when a call whose query went to the backend has completed successfully, the last
\* two statements it sent are the two restore directives built from the snapshot, and the
\* geqo configuration of the session equals the snapshot.
C1_RestoredAfterSuccess ==
    \A c \in Calls :
        (calls[c].pc = "returned" /\ calls[c].outcome = "executed")
            => (EndsWithRestore(calls[c].sent) /\ SessionMatchesSnapshot)

\* a call that applied the forced disable has returned, and one whose preparatory
\* statements changed the geqo configuration has returned
C1_Witness ==
    \E c \in Calls :
        /\ calls[c].pc = "returned" /\ calls[c].outcome = "executed"
        /\ geqo_state.enabled
        /\ calls[c].sent[1] \in {SetGeqo("off"), Preparatory(PrepGeqoOff)}
        /\ calls[c].sent[1] # RestoreDirectives[1]

\* C2: when the main query of a call raised, the restore directives were still issued
\* and the session's geqo configuration equals the snapshot.
C2_RestoredAfterFailure ==
    \A c \in Calls :
        (calls[c].pc = "raised" /\ calls[c].outcome = "query_error")
            => (EndsWithRestore(calls[c].sent) /\ SessionMatchesSnapshot)

\* C3 as stated: every query object whose preparatory statements do not mention geqo and
\* for which the snapshot triggers geqo gets the forced disable before it is sent.
C3_DisableForEveryQueryObject ==
    \A c \in Calls :
        LET call == calls[c] IN
        (/\ MainQuerySent(call)
         /\ call.original.is_sql_query
         /\ ~MentionsGeqo(call.original.hints.preparatory_statements)
         /\ geqo_state.enabled
         /\ call.original.tables >= geqo_state.threshold)
            => call.sent[1] = SetGeqo("off")

\* C3 amended: the forced disable precedes the query whenever the query object carries
\* non-empty query hints, its preparatory statements do not mention geqo and the snapshot
\* triggers geqo for its table count.
C3_DisableForHintedQuery ==
    \A c \in Calls :
        LET call == calls[c] IN
        (/\ MainQuerySent(call)
         /\ call.original.is_sql_query
         /\ call.original.hints.present
         /\ call.original.hints.query_hints # ""
         /\ ~MentionsGeqo(call.original.hints.preparatory_statements)
         /\ geqo_state.enabled
         /\ call.original.tables >= geqo_state.threshold)
            => call.sent[1] = SetGeqo("off")

\* a hinted query with as many tables as the threshold, carrying preparatory statements
\* that do not mention geqo, was sent after the forced disable
C3_Witness ==
    \E c \in Calls :
        LET call == calls[c] IN
        /\ MainQuerySent(call)
        /\ call.original.hints.preparatory_statements = PrepWorkMem
        /\ call.original.tables = geqo_state.threshold
        /\ call.sent[1] = SetGeqo("off")

\* the text has the letters g, e, q, o in a row, each in either case
ContainsAnyCase(text) ==
    \E i \in 1..(Len(text) - 3) :
        /\ text[i] \in {"g", "G"}
        /\ text[i + 1] \in {"e", "E"}
        /\ text[i + 2] \in {"q", "Q"}
        /\ text[i + 3] \in {"o", "O"}

ForcedDisableIssued(call) == call.sent # <<>> /\ call.sent[1] = SetGeqo("off")

PastPrepare(call) == call.pc \notin {"idle", "prepare"}

\* C18: a call on a query object whose preparatory statements contain "geqo" in any letter
\* case never issues the forced disable, whatever the snapshot and the table count are; and
\* a hinted query object without preparatory statements for which the snapshot triggers
\* geqo always gets the forced disable (it is not taken to reconfigure the mode).
C18_MentionSuppressesDisable ==
    \A c \in Calls :
        LET call == calls[c] IN
        (call.pc # "idle" /\ call.original.is_sql_query /\ call.original.hints.present) =>
            /\ ContainsAnyCase(call.original.hints.preparatory_statements)
                  => ~ForcedDisableIssued(call)
            /\ (/\ PastPrepare(call)
                /\ call.original.hints.preparatory_statements = PrepEmpty
                /\ call.original.hints.query_hints # ""
                /\ geqo_state.enabled
                /\ call.original.tables >= geqo_state.threshold)
                  => ForcedDisableIssued(call)

\* a hinted query for which the snapshot triggers geqo, with preparatory statements that
\* name the mode in upper and mixed case only, was sent without the forced disable
C18_Witness ==
    \E c \in Calls :
        LET call == calls[c] IN
        /\ MainQuerySent(call)
        /\ call.original.hints.preparatory_statements = PrepGeqoUpper
        /\ call.original.hints.query_hints # ""
        /\ geqo_state.enabled
        /\ call.original.tables >= geqo_state.threshold
        /\ call.sent[1] = Preparatory(PrepGeqoUpper)

\* call c takes the step from one position to the next
Steps(c, from, to) == calls[c].pc = from /\ calls'[c].pc = to

\* C28: no step of any call, and no apply_configuration or reset_connection, changes the
\* snapshot taken at connection setup; the two steps of the restore write the values of
\* the snapshot to the session, whatever the session held.
C28_SnapshotWrittenOnce ==
    [][/\ geqo_state' = geqo_state
       /\ \A c \in Calls :
             /\ Steps(c, "restore_geqo", "restore_threshold") =>
                   session' = [session EXCEPT !.geqo = IF geqo_state.enabled THEN "on" ELSE "off"]
             /\ Steps(c, "restore_threshold", "returned") =>
                   session' = [session EXCEPT !.geqo_threshold = geqo_state.threshold]]_vars

\* a call is about to restore while the session differs from the snapshot in both
\* settings: the forced disable is in effect and the threshold was changed by
\* apply_configuration before the call
C28_Witness ==
    \E c \in Calls :
        /\ calls[c].pc = "restore_geqo"
        /\ calls[c].sent[1] = SetGeqo("off")
        /\ geqo_state.enabled /\ session.geqo = "off"
        /\ session.geqo_threshold # geqo_state.threshold
        /\ geqo_state = _obtain_geqo_state(server_default)

\* the prepare step of the call sent a forced disable or preparatory statements that set
\* geqo or geqo_threshold
PrepareWroteGeqo(call) == \E i \in 1..Len(call.sent) : WritesGeqo(call.sent[i])

\* C29: when execute_query has returned a result obtained from the backend, and when it
\* has returned a result served from the query cache after its prepare step issued a forced
\* disable or preparatory statements that set geqo, the geqo configuration of the session
\* equals the snapshot.
C29_RestoredAfterResult ==
    \A c \in Calls :
        LET call == calls[c] IN
        (call.pc = "returned" /\ call.op = "execute_query") =>
            /\ call.outcome = "executed" => SessionMatchesSnapshot
            /\ (call.outcome = "cached" /\ PrepareWroteGeqo(call)) => SessionMatchesSnapshot

\* the statements a call on the query sends when its main query succeeds: the forced
\* disable if the snapshot calls for it, the preparatory statements if there are any, the
\* query without its preparatory statements, and the two restore directives
StatementsInOrder(query) ==
    LET hints == query.hints
        forced == /\ hints.present /\ hints.query_hints # ""
                  /\ ~ContainsAnyCase(hints.preparatory_statements)
                  /\ geqo_state.enabled /\ query.tables >= geqo_state.threshold
        main == [query EXCEPT !.hints.preparatory_statements = PrepEmpty] IN
    IF ~query.is_sql_query
    THEN <<MainQuery(query)>> \o RestoreDirectives
    ELSE (IF forced THEN <<SetGeqo("off")>> ELSE <<>>)
         \o (IF hints.preparatory_statements # PrepEmpty
             THEN <<Preparatory(hints.preparatory_statements)>> ELSE <<>>)
         \o <<MainQuery(main)>> \o RestoreDirectives

IsPrefix(s, t) == Len(s) <= Len(t) /\ SubSeq(t, 1, Len(s)) = s

\* C30: at every point of a call the statements sent so far are an initial part of: forced
\* disable (if issued), preparatory statements, main query without the preparatory
\* statements, the two restore directives; a call whose query succeeded has sent all of
\* them, so the preparatory statements reached the backend exactly once.
C30_StatementOrder ==
    \A c \in Calls :
        LET call == calls[c] IN
        call.pc # "idle" =>
            /\ IsPrefix(call.sent, StatementsInOrder(call.original))
            /\ (call.pc = "returned" /\ call.outcome = "executed") =>
                   call.sent = StatementsInOrder(call.original)

\* query_plan has returned after sending all five statements for a query with preparatory
\* statements that do not mention geqo
C30_Witness ==
    \E c \in Calls :
        LET call == calls[c] IN
        /\ call.pc = "returned" /\ call.op = "query_plan"
        /\ Len(call.sent) = 5
        /\ call.sent[1] = SetGeqo("off")
        /\ call.sent[2] = Preparatory(PrepWorkMem)
        /\ call.sent[3][1] = "QUERY" /\ call.sent[3][2].hints.preparatory_statements = PrepEmpty
        /\ SubSeq(call.sent, 4, 5) = RestoreDirectives

====
